---- MODULE Spec2Model ----
(***************************************************************************)
(* Banded matrix-vector product (gbmv) of rocBLAS: the launcher            *)
(* rocblas_internal_gbmv_launcher, the kernel rocblas_gbmvx_kernel with    *)
(* its two diagonal traversal helpers, and the client pattern that runs    *)
(* the same call in host and then in device pointer mode.                  *)
(*                                                                         *)
(* A call is a state machine: Launcher (the host side, one step), then one *)
(* BlockStart and one BlockFinish step per thread block of the grid (the   *)
(* part of the kernel before, resp. after, the __syncthreads barrier),     *)
(* interleaved freely between blocks, then StreamSync. SetPointerMode      *)
(* starts the second call of the pair.                                     *)
(***************************************************************************)
EXTENDS Integers, Sequences, FiniteSets, TLC

\* ------------------------------------------------------------------ bounds
\* largest m and n of the core specification
MaxDim == 2
\* largest kl and ku
MaxBand == 1
\* largest batch_count
MaxBatch == 2
\* most negative m, n and batch_count of the degenerate calls
MaxNeg == 1
MaxIters == 1
\* the tile DIM_X x DIM_Y of the kernel template when a thread block is
\* followed thread by thread
TileX == 2
TileY == 2

\* ------------------------------------------------------- program constants
GBMVX_DIM_X == 64
GBMVX_DIM_Y == 16

\* ------------------------------------------------------ the element type T
\* A value of T is <<re, im, nan>>: a complex number with integer parts, or
\* (nan = 1) a NaN, which every arithmetic operation propagates.
Cx(re, im) == <<re, im, 0>>
NaN == <<0, 0, 1>>
Zero == Cx(0, 0)
One == Cx(1, 0)
IsNaN(v) == v[3] = 1

Add(a, b) == IF IsNaN(a) \/ IsNaN(b) THEN NaN ELSE Cx(a[1] + b[1], a[2] + b[2])

Mul(a, b) ==
    IF IsNaN(a) \/ IsNaN(b) THEN NaN
    ELSE Cx(a[1] * b[1] - a[2] * b[2], a[1] * b[2] + a[2] * b[1])

conj(a) == IF IsNaN(a) THEN NaN ELSE Cx(a[1], 0 - a[2])

\* if(alpha): conversion of T to bool, true for every value but zero
TruthyMut(a) == TRUE
Truthy(a) == a # Zero

\* C++ integer division truncates toward zero
CDiv(a, b) == IF a >= 0 THEN a \div b ELSE 0 - ((0 - a) \div b)

Abs(i) == IF i < 0 THEN 0 - i ELSE i

\* --------------------------------------------------------------- arguments
success == "rocblas_status_success"
none == "rocblas_operation_none"
transpose == "rocblas_operation_transpose"
conjugate_transpose == "rocblas_operation_conjugate_transpose"
host == "rocblas_pointer_mode_host"
device == "rocblas_pointer_mode_device"

Operations == {none, transpose, conjugate_transpose}

\* logical lengths of x and y for a transpose kind
LenX(transA, m, n) == IF transA = none THEN n ELSE m
LenY(transA, m, n) == IF transA = none THEN m ELSE n

\* elements a strided vector of length len occupies (at least one)
Extent(len, inc) == IF len >= 1 THEN (len - 1) * Abs(inc) + 1 ELSE 1

VARIABLES
    arg,            \* the arguments of the call, fixed for the behaviour
    pointer_mode,   \* handle->pointer_mode
    pc,             \* "call": before the launcher, "kernel": grid in flight, "done"
    status,         \* the launcher's return value ("" before it returns)
    trace,          \* host-side events of the launcher, in order
    launched,       \* whether the launcher issued a kernel launch
    launch,         \* the arguments, grid and block shape of that launch
    blk,            \* per thread block: "ready", "barrier", "update", "exit"
    sdata,          \* per thread block: its __shared__ array (<<>> when not live)
    ymem,           \* device memory of y, by element address
    Areads,         \* <<batch, row, col>> of every element of A read
    xreads,         \* address of every element of x read
    yreads,         \* address of every element of y read
    ywrites,        \* <<by, bx, thread_id, ind, address>> of every write of y
    hy_1,           \* y after the host-mode call (<<>> until the second call)
    klog,           \* kernel events <<kind, by, bx, address>>: batch pointers
                    \* resolved ("ptrA", "ptrx", "ptry"), helper calls
                    \* ("helper"), element reads ("rdA", "rdx", "rdy"), writes
                    \* of y ("wry") and uses of shared memory ("sd"), and
                    \* <<"red", by, bx, thread_id, order>>: the elements of
                    \* shared memory a thread added up, in order
    rep,            \* the client's repeatability check of gbmv: the number of
                    \* repeated calls made and y after the first device-mode call
    asum,           \* the asum call in flight and its handle, buffers and events
    cn,             \* the call of rocblas_gbmv_check_numerics: the handle's
                    \* checking mode, the caller's NaN in x, and what the call
                    \* scanned and returned
    thr             \* one thread block of the kernel, thread by thread

vars == <<arg, pointer_mode, pc, status, trace, launched, launch, blk, sdata,
          ymem, Areads, xreads, yreads, ywrites, hy_1, klog, rep, asum, cn, thr>>

gbmv_vars == <<arg, pointer_mode, pc, status, trace, launched, launch, blk, sdata,
               ymem, Areads, xreads, yreads, ywrites, hy_1, klog, rep, cn, thr>>

\* ----------------------------------------------------- operand memories
\* Caller data. Element p (in memory order) of batch b of x, an in-band cell
\* of A, element p of batch b of y; every other cell of the three buffers
\* (the corners of the band storage, rows past kl+ku, gaps between strided
\* elements, cells before the offset) is uninitialised and holds NaN. When
\* beta is zero the caller need not set y: it is uninitialised as a whole.
APat(b, row, col) == Cx(1 + ((row + 2 * col + b) % 3), ((row + col + b) % 2) - (b % 2))
XPat(b, p) == Cx(p + 1 + b, 1 - (p % 2))
YPat(b, p) == Cx(2 * p + 1 - b, 1)

AData(k, a) ==
    LET rel == a - k.offseta IN
    IF k.m < 1 \/ k.n < 1 \/ rel < 0 \/ rel >= k.batch_count * k.strideA THEN NaN
    ELSE LET b == rel \div k.strideA
             w == rel % k.strideA
             col == w \div k.lda
             row == w % k.lda
             r == row - k.ku + col
         IN IF col < k.n /\ row <= k.kl + k.ku /\ r >= 0 /\ r < k.m
            THEN APat(b, row, col) ELSE NaN

XData(k, a) ==
    LET rel == a - k.offsetx
        len == LenX(k.transA, k.m, k.n) IN
    IF len < 1 \/ rel < 0 \/ rel >= k.batch_count * k.stridex THEN NaN
    ELSE LET b == rel \div k.stridex
             w == rel % k.stridex
         IN IF w % Abs(k.incx) = 0 /\ w \div Abs(k.incx) < len
            THEN XPat(b, w \div Abs(k.incx)) ELSE NaN

YData(k, a) ==
    LET rel == a - k.offsety
        len == LenY(k.transA, k.m, k.n) IN
    IF len < 1 \/ rel < 0 \/ rel >= k.batch_count * k.stridey \/ k.beta = Zero THEN NaN
    ELSE LET b == rel \div k.stridey
             w == rel % k.stridey
         IN IF w % Abs(k.incy) = 0 /\ w \div Abs(k.incy) < len
            THEN YPat(b, w \div Abs(k.incy)) ELSE NaN

\* addresses of the y buffer: the batches, and one guard cell behind them
YSize(k) ==
    k.offsety + 1 + (IF k.batch_count >= 1 THEN k.batch_count * k.stridey ELSE 0)

Y0(k) == [a \in 0 .. YSize(k) - 1 |-> YData(k, a)]

\* ------------------------------------------------ batched operand resolver
\* load_scalar: a scalar passed by value is itself, one passed by pointer is
\* read through the pointer at element idx * inc (inc = 0: one shared value)
load_scalar(s, idx, inc) == s.v

\* A batch operand as the launcher receives it: one base pointer for strided
\* addressing (const T*), or an array with one pointer per batch instance
\* for pointer-batched addressing (const T* const*).
StridedPtr(base) == [array |-> FALSE, base |-> base, ptrs |-> <<>>]
ArrayPtr(ptrs) == [array |-> TRUE, base |-> 0, ptrs |-> ptrs]

\* load_ptr_batch: p + block * stride + offset for a strided operand,
\* p[block] + offset for an array of pointers
load_ptr_batch(p, block, offset, stride) ==
    IF p.array THEN p.ptrs[block + 1] + offset
    ELSE p.base + block * stride + offset

nullptr == 0 - 1

\* cond_load_ptr_batch: the batch pointer only if cond is true, else nullptr
cond_load_ptr_batch(cond, p, block, offset, stride) ==
    IF cond THEN load_ptr_batch(p, block, offset, stride) ELSE nullptr

\* ------------------------------------------------------ traversal helpers
\* row <= kl + ku && row >= 0
InBandRowMut(row, kl, ku) == TRUE
InBandRow(row, kl, ku) == row <= kl + ku /\ row >= 0

\* row <= ku && col >= (ku - row) && col < (ku - row + m)
UpperCell(row, col, m, ku) == row <= ku /\ col >= (ku - row) /\ col < (ku - row + m)

\* row > ku && col < m - (row - ku)
LowerCellN(row, col, m, ku) == row > ku /\ col < m - (row - ku)

\* (row > ku && row <= kl + ku) && col < m - (row - ku)
LowerCellT(row, col, m, kl, ku) == (row > ku /\ row <= kl + ku) /\ col < m - (row - ku)

\* the matrix element as the helper uses it: conj(A[..]) or A[..]
ElemMut(is_conj, v) == v
Elem(is_conj, v) == IF is_conj THEN conj(v) ELSE v

\* banded storage row of logical row ind in column col
BandRow(ind, ku, col) == ind + (ku - col)

\* res_A += elem(A[row + col * lda]) * x[xi * incx], with the two reads logged
Fma(acc, k, A, x, row, col, xi, is_conj) ==
    [res_A |-> Add(acc.res_A,
                   Mul(Elem(is_conj, AData(arg, A + row + col * k.lda)),
                       XData(arg, x + xi * k.incx))),
     Ard |-> acc.Ard \cup {<<row, col>>},
     xrd |-> acc.xrd \cup {x + xi * k.incx}]

NoAcc == [res_A |-> Zero, Ard |-> {}, xrd |-> {}]

RECURSIVE gbmvn_loop(_, _, _, _, _, _, _)
gbmvn_loop(DIM_Y, col, ind, k, A, x, acc) ==
    IF ~(col < k.n) THEN acc
    ELSE LET row == BandRow(ind, k.ku, col)
             inb == ind < k.m /\ InBandRow(row, k.kl, k.ku)
             a1 == IF inb /\ UpperCell(row, col, k.m, k.ku)
                   THEN Fma(acc, k, A, x, row, col, col, FALSE) ELSE acc
             a2 == IF inb /\ LowerCellN(row, col, k.m, k.ku)
                   THEN Fma(a1, k, A, x, row, col, col, FALSE) ELSE a1
         IN gbmvn_loop(DIM_Y, col + DIM_Y, ind, k, A, x, a2)

rocblas_gbmvn_kernel_helper(DIM_Y, ty, ind, k, A, x) ==
    gbmvn_loop(DIM_Y, ty, ind, k, A, x, NoAcc)

RECURSIVE gbmvt_loop(_, _, _, _, _, _, _, _)
gbmvt_loop(DIM_Y, is_conj, row, ind, k, A, x, acc) ==
    IF ~(row < k.lda) THEN acc
    ELSE LET col == ind
             inb == col < k.n /\ InBandRow(row, k.kl, k.ku)
             a1 == IF inb /\ UpperCell(row, col, k.m, k.ku)
                   THEN Fma(acc, k, A, x, row, col, row - k.ku + col, is_conj)
                   ELSE IF inb /\ LowerCellT(row, col, k.m, k.kl, k.ku)
                   THEN Fma(acc, k, A, x, row, col, row - k.ku + col, is_conj)
                   ELSE acc
         IN gbmvt_loop(DIM_Y, is_conj, row + DIM_Y, ind, k, A, x, a1)

rocblas_gbmvt_kernel_helper(DIM_Y, is_conj, ty, ind, k, A, x) ==
    gbmvt_loop(DIM_Y, is_conj, ty, ind, k, A, x, NoAcc)

\* ------------------------------------------------- kernel, tile computation
\* the part of rocblas_gbmvx_kernel_calc before the barrier, for thread
\* (tx, ty) of block bx: the partial sum it stores in sdata[tx + ty * DIM_X]
calc_partial(DIM_X, DIM_Y, tx, ty, bx, k, A, x) ==
    LET ind == bx * DIM_X + tx IN
    IF k.transA = none
    THEN rocblas_gbmvn_kernel_helper(DIM_Y, ty, ind, k, A, x)
    ELSE rocblas_gbmvt_kernel_helper(DIM_Y, k.transA = conjugate_transpose,
                                     ty, ind, k, A, x)

\* for(i = 1; i < DIM_Y; i++) sdata[thread_id] += sdata[thread_id + DIM_X * i]
RECURSIVE reduce_loop(_, _, _, _, _, _)
reduce_loop(DIM_X, DIM_Y, sd, thread_id, i, acc) ==
    IF ~(i < DIM_Y) THEN acc
    ELSE reduce_loop(DIM_X, DIM_Y, sd, thread_id, i + 1,
                     Add(acc, sd[thread_id + DIM_X * i]))

\* the elements of sdata that loop adds up, in the order it reads them,
\* after sdata[thread_id] itself
RECURSIVE reduce_order(_, _, _, _, _)
reduce_orderMut(DIM_X, DIM_Y, thread_id, i, acc) ==
    acc \o [j \in 1 .. DIM_Y - i |-> thread_id + DIM_X * (DIM_Y - j)]
reduce_order(DIM_X, DIM_Y, thread_id, i, acc) ==
    IF ~(i < DIM_Y) THEN acc
    ELSE reduce_order(DIM_X, DIM_Y, thread_id, i + 1, Append(acc, thread_id + DIM_X * i))

\* thread_id < DIM_X && ind < max_ind
WritesYMut(DIM_X, thread_id, ind, max_ind) == ind < max_ind
WritesY(DIM_X, thread_id, ind, max_ind) == thread_id < DIM_X /\ ind < max_ind

\* whether the update of y reads the old element (beta != 0)
ReadsOldY(beta) == beta # Zero

\* the new y[ind * incy] from the reduced sum s and the old element yold
UpdateYMut(alpha, beta, s, yold) ==
    IF Truthy(alpha) THEN Add(Mul(alpha, s), Mul(beta, yold)) ELSE Mul(beta, yold)
UpdateY(alpha, beta, s, yold) ==
    IF beta # Zero
    THEN IF Truthy(alpha) THEN Add(Mul(alpha, s), Mul(beta, yold)) ELSE Mul(beta, yold)
    ELSE IF Truthy(alpha) THEN Mul(alpha, s) ELSE Zero

\* if(!alpha && beta == 1) return;
KernelSkipMut(alpha, beta) == FALSE
KernelSkip(alpha, beta) == ~Truthy(alpha) /\ beta = One

\* ---------------------------------------------------------------- launcher
\* quick return: if(!m || !n || !batch_count)
QuickReturnMut(m, n, batch_count) == m = 0 \/ batch_count = 0
QuickReturn(m, n, batch_count) == m = 0 \/ n = 0 \/ batch_count = 0

\* incx < 0 ? offsetx - incx * (transA == none ? n - 1 : m - 1) : offsetx
ShiftXMut(transA, m, n, offsetx, incx) ==
    IF incx < 0 THEN offsetx - incx * (IF transA = none THEN m - 1 ELSE n - 1)
    ELSE offsetx
ShiftX(transA, m, n, offsetx, incx) ==
    IF incx < 0 THEN offsetx - incx * (IF transA = none THEN n - 1 ELSE m - 1)
    ELSE offsetx

\* incy < 0 ? offsety - incy * (transA == none ? m - 1 : n - 1) : offsety
ShiftYMut(transA, m, n, offsety, incy) ==
    IF incy < 0 THEN offsety - incy * (IF transA = none THEN n - 1 ELSE m - 1)
    ELSE offsety
ShiftY(transA, m, n, offsety, incy) ==
    IF incy < 0 THEN offsety - incy * (IF transA = none THEN m - 1 ELSE n - 1)
    ELSE offsety

\* block_dim = transA == none ? m : n
BlockDim(transA, m, n) == IF transA = none THEN m ELSE n

\* blocks = (block_dim - 1) / GBMVX_DIM_X + 1
Blocks(block_dim) == CDiv(block_dim - 1, GBMVX_DIM_X) + 1

\* if(!*alpha && *beta == 1) return rocblas_status_success;
HostSkipMut(alpha, beta) == ~Truthy(alpha)
HostSkipMut2(alpha, beta) == beta = One
HostSkip(alpha, beta) == ~Truthy(alpha) /\ beta = One

\* host reads of the scalars up to the launch: the test !*alpha && *beta == 1
\* (the right operand only when the left one holds), then the arguments
HostDerefs(alpha) ==
    <<"*alpha">> \o (IF ~Truthy(alpha) THEN <<"*beta">> ELSE <<>>)

\* The blocks a launch with dim3 grid(gx, gy) runs. dim3 holds unsigned
\* values, so a negative count wraps to at least 2^31; a grid with a zero or
\* an oversized dimension is refused by the device and runs no block.
GridBlocks(gx, gy) ==
    IF gx >= 1 /\ gy >= 1
    THEN (0 .. gx - 1) \X (0 .. gy - 1) ELSE {}

NoLaunch ==
    [transA |-> none, m |-> 0, n |-> 0, kl |-> 0, ku |-> 0,
     alphaa |-> [ptr |-> FALSE, v |-> Zero], Aa |-> StridedPtr(0), shifta |-> 0,
     lda |-> 0, strideA |-> 0, xa |-> StridedPtr(0), shiftx |-> 0, incx |-> 0,
     stridex |-> 0, betaa |-> [ptr |-> FALSE, v |-> Zero], ya |-> StridedPtr(0),
     shifty |-> 0, incy |-> 0,
     stridey |-> 0, grid |-> <<0, 0>>, blockDim |-> <<0, 0, 0>>]

\* ROCBLAS_LAUNCH_KERNEL(rocblas_gbmvx_kernel<GBMVX_DIM_X, GBMVX_DIM_Y>, ...):
\* the kernel arguments; the scalars go by pointer (device mode) or by value
\* the operand the caller passes for a buffer whose batch b starts stride * b
\* elements after address 0: the base pointer, or the array of the batch
\* pointers when the call is pointer-batched
Operand(stride) ==
    IF arg.batched
    THEN ArrayPtr([b \in 1 .. arg.batch_count |-> (b - 1) * stride])
    ELSE StridedPtr(0)

KernelArgs(byptr, shiftx, shifty, grid, threads) ==
    [transA |-> arg.transA, m |-> arg.m, n |-> arg.n, kl |-> arg.kl, ku |-> arg.ku,
     alphaa |-> [ptr |-> byptr, v |-> arg.alpha],
     Aa |-> Operand(arg.strideA), shifta |-> arg.offseta, lda |-> arg.lda, strideA |-> arg.strideA,
     xa |-> Operand(arg.stridex), shiftx |-> shiftx, incx |-> arg.incx, stridex |-> arg.stridex,
     betaa |-> [ptr |-> byptr, v |-> arg.beta],
     ya |-> Operand(arg.stridey), shifty |-> shifty, incy |-> arg.incy, stridey |-> arg.stridey,
     grid |-> grid, blockDim |-> threads]

Launcher ==
    /\ pc = "call"
    /\ LET shiftx == ShiftX(arg.transA, arg.m, arg.n, arg.offsetx, arg.incx)
           shifty == ShiftY(arg.transA, arg.m, arg.n, arg.offsety, arg.incy)
           block_dim == BlockDim(arg.transA, arg.m, arg.n)
           blocks == Blocks(block_dim)
           gbmvx_grid == <<blocks, arg.batch_count>>
           gbmvx_threads == <<GBMVX_DIM_X, GBMVX_DIM_Y, 1>>
           grid_blocks == GridBlocks(blocks, arg.batch_count)
       IN IF QuickReturn(arg.m, arg.n, arg.batch_count)
          THEN /\ pc' = "done"
               /\ UNCHANGED <<trace, launched, launch, blk, sdata>>
          ELSE IF pointer_mode = device
          THEN /\ trace' = <<"launch">>
               /\ launched' = TRUE
               /\ launch' = KernelArgs(TRUE, shiftx, shifty, gbmvx_grid, gbmvx_threads)
               /\ blk' = [b \in grid_blocks |-> "ready"]
               /\ sdata' = [b \in grid_blocks |-> <<>>]
               /\ pc' = "kernel"
          ELSE IF HostSkip(arg.alpha, arg.beta)
          THEN /\ trace' = HostDerefs(arg.alpha)
               /\ pc' = "done"
               /\ UNCHANGED <<launched, launch, blk, sdata>>
          ELSE /\ trace' = HostDerefs(arg.alpha) \o <<"*alpha", "*beta", "launch">>
               /\ launched' = TRUE
               /\ launch' = KernelArgs(FALSE, shiftx, shifty, gbmvx_grid, gbmvx_threads)
               /\ blk' = [b \in grid_blocks |-> "ready"]
               /\ sdata' = [b \in grid_blocks |-> <<>>]
               /\ pc' = "kernel"
    /\ status' = success
    /\ UNCHANGED <<arg, pointer_mode, ymem, Areads, xreads, yreads, ywrites, hy_1,
                   klog, rep, asum, cn, thr>>

\* ------------------------------------------------------------------ kernel
\* the batch instance of block (bx, by): blockIdx.y
BatchOfMut(bx, by) == bx
BatchOf(bx, by) == by

\* if(DIM_X * DIM_Y != num_threads) return;
WrongThreadsMut(DIM_X, DIM_Y, num_threads) == FALSE
WrongThreads(DIM_X, DIM_Y, num_threads) == DIM_X * DIM_Y # num_threads

\* sdata[tx + ty * DIM_X] = res_A; __syncthreads(): block (bx, by) holds the
\* partial sums sd and has made the reads of A and x collected in accs
StorePartials(bx, by, k, A, x, y, sd, accs) ==
    /\ sdata' = [sdata EXCEPT ![<<bx, by>>] = sd]
    /\ klog' = klog \cup {<<"ptrA", by, bx, A>>, <<"ptrx", by, bx, x>>,
                           <<"ptry", by, bx, y>>,
                           <<"helper", by, bx, 0>>, <<"sd", by, bx, 0>>}
                    \cup {<<"rdA", by, bx, A + c[1] + c[2] * k.lda>> :
                              c \in UNION {a.Ard : a \in accs}}
                    \cup {<<"rdx", by, bx, a>> : a \in UNION {a.xrd : a \in accs}}
    /\ Areads' = Areads \cup {<<by, c[1], c[2]>> : c \in UNION {a.Ard : a \in accs}}
    /\ xreads' = xreads \cup UNION {a.xrd : a \in accs}
    /\ blk' = [blk EXCEPT ![<<bx, by>>] = "barrier"]

\* rocblas_gbmvx_kernel of block (bx, by) up to the barrier of
\* rocblas_gbmvx_kernel_calc: the thread-count guard, the scalars, the
\* alpha == 0 && beta == 1 return, the batch pointers, and every thread's
\* partial sum stored in shared memory.
BlockStart(bx, by) ==
    /\ pc = "kernel"
    /\ <<bx, by>> \in DOMAIN blk
    /\ blk[<<bx, by>>] = "ready"
    /\ LET k == launch
           DIM_X == GBMVX_DIM_X
           DIM_Y == GBMVX_DIM_Y
           num_threads == k.blockDim[1] * k.blockDim[2] * k.blockDim[3]
           alpha == load_scalar(k.alphaa, BatchOf(bx, by), 0)
           beta == load_scalar(k.betaa, BatchOf(bx, by), 0)
           A == cond_load_ptr_batch(Truthy(alpha), k.Aa, BatchOf(bx, by), k.shifta,
                                    k.strideA)
           x == cond_load_ptr_batch(Truthy(alpha), k.xa, BatchOf(bx, by), k.shiftx,
                                    k.stridex)
           y == load_ptr_batch(k.ya, BatchOf(bx, by), k.shifty, k.stridey)
           \* thread (tx, ty): its partial sum and its reads
           part(tx, ty) == calc_partial(DIM_X, DIM_Y, tx, ty, bx, k, A, x)
       IN IF WrongThreads(DIM_X, DIM_Y, num_threads) \/ KernelSkip(alpha, beta)
          THEN /\ blk' = [blk EXCEPT ![<<bx, by>>] = "exit"]
               /\ UNCHANGED <<sdata, Areads, xreads, klog>>
          ELSE IF Truthy(alpha)
          THEN StorePartials(bx, by, k, A, x, y,
                   [s \in 0 .. DIM_X * DIM_Y - 1 |-> part(s % DIM_X, s \div DIM_X).res_A],
                   {part(tx, ty) : tx \in 0 .. k.blockDim[1] - 1,
                                   ty \in 0 .. k.blockDim[2] - 1})
          ELSE /\ blk' = [blk EXCEPT ![<<bx, by>>] = "update"]
               /\ klog' = klog \cup {<<"ptrA", by, bx, A>>, <<"ptrx", by, bx, x>>,
                                      <<"ptry", by, bx, y>>}
               /\ UNCHANGED <<sdata, Areads, xreads>>
    /\ UNCHANGED <<arg, pointer_mode, pc, status, trace, launched, launch,
                   ymem, yreads, ywrites, hy_1, rep, asum, cn, thr>>

\* if(alpha) for(i = 1; i < DIM_Y; i++) sdata[thread_id] += ...: the sum that
\* thread thread_id then finds in sdata[thread_id]
thread_sum(DIM_X, DIM_Y, alpha, sd, thread_id) ==
    IF Truthy(alpha) THEN reduce_loop(DIM_X, DIM_Y, sd, thread_id, 1, sd[thread_id])
    ELSE Zero

\* Block (bx, by) leaves the kernel: every thread of W (the threads that pass
\* the guard, by thread_id) has updated its element y[ind * incy], each from
\* the old value of that element alone. A store outside the buffer is
\* logged and not kept.
StoreY(bx, by, W, DIM_X, DIM_Y, k, alpha, beta, y, sd) ==
    /\ ymem' = [a \in DOMAIN ymem |->
                   IF \E t \in W : y + (bx * DIM_X + t) * k.incy = a
                   THEN UpdateY(alpha, beta,
                                thread_sum(DIM_X, DIM_Y, alpha, sd,
                                    CHOOSE t \in W : y + (bx * DIM_X + t) * k.incy = a),
                                ymem[a])
                   ELSE ymem[a]]
    /\ yreads' = yreads \cup
                 (IF ReadsOldY(beta) THEN {y + (bx * DIM_X + t) * k.incy : t \in W}
                  ELSE {})
    /\ ywrites' = ywrites \cup
                  {<<by, bx, t, bx * DIM_X + t, y + (bx * DIM_X + t) * k.incy>> : t \in W}
    /\ klog' = klog \cup {<<"wry", by, bx, y + (bx * DIM_X + t) * k.incy>> : t \in W}
                    \cup (IF ReadsOldY(beta)
                          THEN {<<"rdy", by, bx, y + (bx * DIM_X + t) * k.incy>> : t \in W}
                          ELSE {})
                    \cup (IF Truthy(alpha) /\ W # {} THEN {<<"sd", by, bx, 0>>} ELSE {})
                    \cup (IF Truthy(alpha)
                          THEN {<<"red", by, bx, t,
                                  reduce_order(DIM_X, DIM_Y, t, 1, <<t>>)>> : t \in W}
                          ELSE {})
    /\ blk' = [blk EXCEPT ![<<bx, by>>] = "exit"]
    /\ sdata' = [sdata EXCEPT ![<<bx, by>>] = <<>>]

\* rocblas_gbmvx_kernel_calc of block (bx, by) after the barrier: the threads
\* with thread_id < DIM_X and ind < max_ind add up the DIM_Y partial sums of
\* their column of shared memory and update their element of y.
BlockFinish(bx, by) ==
    /\ pc = "kernel"
    /\ <<bx, by>> \in DOMAIN blk
    /\ blk[<<bx, by>>] \in {"barrier", "update"}
    /\ LET k == launch
           DIM_X == GBMVX_DIM_X
           DIM_Y == GBMVX_DIM_Y
           \* thread_id = threadIdx.x + threadIdx.y * blockDim.x
           num_threads == k.blockDim[1] * k.blockDim[2] * k.blockDim[3]
           alpha == load_scalar(k.alphaa, BatchOf(bx, by), 0)
           beta == load_scalar(k.betaa, BatchOf(bx, by), 0)
           y == load_ptr_batch(k.ya, BatchOf(bx, by), k.shifty, k.stridey)
           max_ind == IF k.transA = none THEN k.m ELSE k.n
       IN StoreY(bx, by,
                 {t \in 0 .. num_threads - 1 : WritesY(DIM_X, t, bx * DIM_X + t, max_ind)},
                 DIM_X, DIM_Y, k, alpha, beta, y, sdata[<<bx, by>>])
    /\ UNCHANGED <<arg, pointer_mode, pc, status, trace, launched, launch,
                   Areads, xreads, hy_1, rep, asum, cn, thr>>

\* the stream has run every block of the grid
StreamSync ==
    /\ pc = "kernel"
    /\ \A b \in DOMAIN blk : blk[b] = "exit"
    /\ pc' = "done"
    /\ UNCHANGED <<arg, pointer_mode, status, trace, launched, launch, blk, sdata,
                   ymem, Areads, xreads, yreads, ywrites, hy_1, klog, rep, asum,
                   cn, thr>>

\* ------------------------------------------------------------------ client
\* The client keeps the host-mode result, switches the handle to device
\* pointer mode and issues the same call on a fresh copy of y.
SetPointerMode ==
    /\ pc = "done"
    /\ pointer_mode = host
    /\ pointer_mode' = device
    /\ hy_1' = ymem
    /\ ymem' = Y0(arg)
    /\ pc' = "call"
    /\ status' = ""
    /\ trace' = <<>>
    /\ launched' = FALSE
    /\ launch' = NoLaunch
    /\ blk' = <<>>
    /\ sdata' = <<>>
    /\ Areads' = {}
    /\ xreads' = {}
    /\ yreads' = {}
    /\ ywrites' = {}
    /\ klog' = {}
    /\ UNCHANGED <<arg, rep, asum, cn, thr>>

\* -------------------------------------------------------------------- asum
invalid_handle == "rocblas_status_invalid_handle"
invalid_pointer == "rocblas_status_invalid_pointer"
size_unchanged == "rocblas_status_size_unchanged"
size_increased == "rocblas_status_size_increased"
memory_error == "rocblas_status_memory_error"
check_numerics_fail == "rocblas_status_check_numerics_fail"
status_continue == "rocblas_status_continue"

\* static constexpr API_INT batch_count_1 = 1; stridex_0 = 0; shiftx_0 = 0
batch_count_1 == 1
stridex_0 == 0
shiftx_0 == 0
\* threads per block of the reduction kernels
ROCBLAS_ASUM_NB == 512

\* The batch count and the stride the entry point works with: rocblas_asum
\* fixes them, the strided-batched entry point takes them from the caller.
EntryBatchCount(c) == IF c.api = "asum" THEN batch_count_1 ELSE c.batch_count
EntryStride(c) == IF c.api = "asum" THEN stridex_0 ELSE c.stridex

\* Device memory of x: a caller-set pattern by address; with c.data = "nan"
\* the element at the shift address is NaN.
AsumXData(c, a) ==
    IF c.data = "nan" /\ a = shiftx_0 THEN NaN
    ELSE Cx((a % 3) + 1, 0 - (a % 2))

\* addresses of the n elements of batch b as the kernels traverse them
AsumXAddrs(n, shiftx, incx, stridex, b) ==
    {shiftx + b * stridex + i * incx : i \in 0 .. n - 1}

\* rocblas_fetch_asum: |re| + |im| of one element
fetch_asum(v) == IF IsNaN(v) THEN NaN ELSE Cx(Abs(v[1]) + Abs(v[2]), 0)

\* the sum of fetch_asum over the elements at the addresses S of x
RECURSIVE SumAbs(_, _)
SumAbs(c, S) ==
    IF S = {} THEN Zero
    ELSE LET a == CHOOSE a \in S : \A o \in S : a <= o
         IN Add(fetch_asum(AsumXData(c, a)), SumAbs(c, S \ {a}))

\* rocblas_reduction_kernel_workspace_size<API_INT, NB, To>(n, batch_count):
\* one partial result per block of NB elements and one final result, per
\* batch instance, of sizeof(To) = 4 bytes each
rocblas_reduction_kernel_workspace_size(NB, n, batch_count) ==
    LET n1 == IF n <= 0 THEN 1 ELSE n
        b1 == IF batch_count <= 0 THEN 1 ELSE batch_count
        blocks == (n1 - 1) \div NB + 1
    IN 4 * (blocks + 1) * b1

\* handle->set_optimal_device_memory_size(bytes) in size-query mode: keeps
\* the largest size asked for and says whether it grew
set_optimal_device_memory_size(h, bytes) ==
    [handle |-> [h EXCEPT !.query_size = IF bytes > @ THEN bytes ELSE @],
     status |-> IF bytes > h.query_size THEN size_increased ELSE size_unchanged]

\* the elements a result buffer holds for a call with batch_count batches
ResultCells(batch_count) == 0 .. (IF Abs(batch_count) >= 1 THEN Abs(batch_count) ELSE 1) - 1

\* rocblas_asum_nrm2_arg_check: the quick return for an empty problem, which
\* needs only result and sets batch_count results to zero, then the null
\* pointer tests. zero: whether the batch results are set to zero.
rocblas_asum_nrm2_arg_check(n, x, incx, stridex, batch_count, result) ==
    IF n <= 0 \/ incx <= 0 \/ batch_count <= 0
    THEN IF result = "null" THEN [status |-> invalid_pointer, zero |-> FALSE]
         ELSE [status |-> success, zero |-> batch_count > 0]
    ELSE IF x = "null" \/ result = "null"
    THEN [status |-> invalid_pointer, zero |-> FALSE]
    ELSE [status |-> status_continue, zero |-> FALSE]

\* rocblas_internal_check_numerics_vector_template on the input x: the
\* failure status only in the mode that fails on a NaN/Inf
rocblas_internal_check_numerics_vector_template(c, n, shiftx, incx, stridex, batch_count, check_numerics) ==
    IF check_numerics = "fail"
       /\ \E b \in 0 .. batch_count - 1 :
              \E a \in AsumXAddrs(n, shiftx, incx, stridex, b) : IsNaN(AsumXData(c, a))
    THEN check_numerics_fail ELSE success

\* rocblas_internal_asum_nrm2_launcher: the results of the batch instances
rocblas_internal_asum_nrm2_launcher(c, n, shiftx, incx, stridex, batch_count) ==
    [b \in 0 .. batch_count - 1 |->
        SumAbs(c, AsumXAddrs(n, shiftx, incx, stridex, b))]

\* no asum call in flight
AsumIdle ==
    [pc |-> "idle", call |-> <<>>, handle |-> <<>>, status |-> "", ev |-> <<>>,
     hr_1 |-> <<>>, dr |-> <<>>, hr_2 |-> <<>>, iter |-> 0, w_mem |-> 0]

\* the result buffer of the current pointer mode: hr_1 on the host, dr on
\* the device
ResultBuf == IF asum.handle.pointer_mode = host THEN "hr_1" ELSE "dr"

\* the call returns st after the events evs; buffer ResultBuf now holds res,
\* and the workspace w_mem, a local of the call, is given back
AsumReturnMut(st, evs, res) ==
    asum' = [asum EXCEPT !.pc = "done", !.status = st, !.ev = @ \o evs,
                         !.hr_1 = IF ResultBuf = "hr_1" THEN res ELSE @,
                         !.dr = IF ResultBuf = "dr" THEN res ELSE @]
AsumReturn(st, evs, res) ==
    asum' = [asum EXCEPT !.pc = "done", !.status = st, !.ev = @ \o evs,
                         !.w_mem = 0,
                         !.hr_1 = IF ResultBuf = "hr_1" THEN res ELSE @,
                         !.dr = IF ResultBuf = "dr" THEN res ELSE @]

\* the buffer ResultBuf as it is
ResultNow == IF ResultBuf = "hr_1" THEN asum.hr_1 ELSE asum.dr

\* if(!handle) return rocblas_status_invalid_handle;
NullHandleMut(handle) == FALSE
NullHandle(handle) == ~handle

\* if(n <= 0 || incx <= 0) return rocblas_status_size_unchanged;
NothingToSizeMut(n, incx) == n <= 0
NothingToSize(n, incx) == n <= 0 \/ incx <= 0

\* rocblas_asum_impl up to the end of the size query: the handle test, the
\* workspace size and, in size-query mode, the answer to the query
AsumEnter ==
    /\ asum.pc = "call"
    /\ LET c == asum.call
           dev_bytes == rocblas_reduction_kernel_workspace_size(
                            ROCBLAS_ASUM_NB, c.n, EntryBatchCount(c))
       IN IF NullHandle(c.handle)
          THEN AsumReturn(invalid_handle, <<>>, ResultNow)
          ELSE IF asum.handle.query
          THEN IF NothingToSize(c.n, c.incx)
                  \/ (c.api # "asum" /\ c.batch_count <= 0)
               THEN AsumReturn(size_unchanged, <<>>, ResultNow)
               ELSE LET r == set_optimal_device_memory_size(asum.handle, dev_bytes)
                    IN asum' = [asum EXCEPT
                                   !.pc = "done", !.status = r.status,
                                   !.handle = r.handle,
                                   !.ev = @ \o <<"set_optimal_device_memory_size">>]
          ELSE asum' = [asum EXCEPT !.pc = "log"]
    /\ UNCHANGED gbmv_vars

\* the logging calls the layer mode asks for
LogEvents(layer_mode) ==
    (IF "log_trace" \in layer_mode THEN <<"log_trace">> ELSE <<>>)
    \o (IF "log_bench" \in layer_mode THEN <<"log_bench">> ELSE <<>>)
    \o (IF "log_profile" \in layer_mode THEN <<"log_profile">> ELSE <<>>)

AsumLog ==
    /\ asum.pc = "log"
    /\ asum' = [asum EXCEPT !.pc = "arg_check",
                            !.ev = @ \o LogEvents(asum.handle.layer_mode)]
    /\ UNCHANGED gbmv_vars

\* if(arg_status != rocblas_status_continue) return arg_status;
ArgCheckReturnsMut(arg_status) == FALSE
ArgCheckReturns(arg_status) == arg_status # status_continue

\* arg_status = rocblas_asum_nrm2_arg_check(...); the return on a status
\* other than continue
AsumArgCheck ==
    /\ asum.pc = "arg_check"
    /\ LET c == asum.call
           r == rocblas_asum_nrm2_arg_check(c.n, c.x, c.incx, EntryStride(c),
                                            EntryBatchCount(c), c.result)
       IN IF ArgCheckReturns(r.status)
          THEN AsumReturn(r.status,
                          <<"arg_check">>
                              \o (IF r.zero THEN <<"write_result">> ELSE <<>>),
                          IF r.zero
                          THEN [b \in DOMAIN ResultNow |->
                                   IF b < EntryBatchCount(c) THEN Zero ELSE ResultNow[b]]
                          ELSE ResultNow)
          ELSE asum' = [asum EXCEPT !.pc = "malloc", !.ev = @ \o <<"arg_check">>]
    /\ UNCHANGED gbmv_vars

\* if(!w_mem) return rocblas_status_memory_error;
NoMemoryMut(w_mem) == FALSE
NoMemory(w_mem) == w_mem = 0

\* auto w_mem = handle->device_malloc(dev_bytes): the allocation gives
\* dev_bytes bytes or, when the device has no memory left, nothing
AsumMalloc ==
    /\ asum.pc = "malloc"
    /\ \E w_mem \in {0, rocblas_reduction_kernel_workspace_size(
                           ROCBLAS_ASUM_NB, asum.call.n, EntryBatchCount(asum.call))} :
           IF NoMemory(w_mem)
           THEN AsumReturn(memory_error, <<"device_malloc">>, ResultNow)
           ELSE asum' = [asum EXCEPT
                            !.pc = "numerics", !.ev = @ \o <<"device_malloc">>,
                            !.w_mem = w_mem]
    /\ UNCHANGED gbmv_vars

\* if(check_numerics) { ...; if(status != success) return status; }
ScansInputMut(check_numerics) == FALSE
ScansInput(check_numerics) == check_numerics # "none"

AsumCheckNumerics ==
    /\ asum.pc = "numerics"
    /\ LET c == asum.call
           st == rocblas_internal_check_numerics_vector_template(
                     c, c.n, shiftx_0, c.incx, EntryStride(c), EntryBatchCount(c),
                     asum.handle.check_numerics)
       IN IF ScansInput(asum.handle.check_numerics)
          THEN IF st # success
               THEN AsumReturn(st, <<"check_numerics">>, ResultNow)
               ELSE asum' = [asum EXCEPT !.pc = "launch",
                                         !.ev = @ \o <<"check_numerics">>]
          ELSE asum' = [asum EXCEPT !.pc = "launch"]
    /\ UNCHANGED gbmv_vars

\* return rocblas_internal_asum_nrm2_launcher(..., (To*)w_mem, result);
AsumLaunch ==
    /\ asum.pc = "launch"
    /\ LET c == asum.call
           res == rocblas_internal_asum_nrm2_launcher(
                      c, c.n, shiftx_0, c.incx, EntryStride(c), EntryBatchCount(c))
       IN AsumReturn(success, <<"launcher", "write_result">>,
                     [b \in DOMAIN ResultNow |->
                         IF b < EntryBatchCount(c) THEN res[b] ELSE ResultNow[b]])
    /\ UNCHANGED gbmv_vars

\* The client switches the handle to device pointer mode and issues the same
\* call with the device result buffer.
AsumSetPointerMode ==
    /\ asum.pc = "done"
    /\ asum.handle.pointer_mode = host
    /\ asum' = [asum EXCEPT !.pc = "call", !.status = "", !.ev = <<>>,
                            !.handle.pointer_mode = device]
    /\ UNCHANGED gbmv_vars

\* The client's repeatability check: it keeps the result of the first
\* device-mode call in hr_2 and issues the call again, arg.iters times.
AsumRepeat ==
    /\ asum.pc = "done"
    /\ asum.handle.pointer_mode = device
    /\ asum.status = success
    /\ asum.iter < MaxIters
    /\ asum' = [asum EXCEPT !.pc = "call", !.status = "", !.ev = <<>>,
                            !.hr_2 = IF asum.iter = 0 THEN asum.dr ELSE @,
                            !.iter = @ + 1]
    /\ UNCHANGED gbmv_vars

\* The client's repeatability check of gbmv: it keeps y of the first
\* device-mode call and issues the call again on a fresh copy of y.
Reissue ==
    /\ pc = "done"
    /\ pointer_mode = device
    /\ rep.iter < MaxIters
    /\ rep' = [iter |-> rep.iter + 1, y_2 |-> IF rep.iter = 0 THEN ymem ELSE rep.y_2]
    /\ ymem' = Y0(arg)
    /\ pc' = "call"
    /\ status' = ""
    /\ trace' = <<>>
    /\ launched' = FALSE
    /\ launch' = NoLaunch
    /\ blk' = <<>>
    /\ sdata' = <<>>
    /\ Areads' = {}
    /\ xreads' = {}
    /\ yreads' = {}
    /\ ywrites' = {}
    /\ klog' = {}
    /\ UNCHANGED <<arg, pointer_mode, hy_1, asum, cn, thr>>

\* ------------------------------------------------------ numerics checking
\* the addresses the vector check scans: the n elements of every batch,
\* from the end of data backward when the increment is negative
VectorScanAddrs(n, offset, inc, stride, batch_count) ==
    {offset + b * stride + (IF inc < 0 THEN (0 - inc) * (n - 1) ELSE 0) + i * inc :
        b \in 0 .. batch_count - 1, i \in 0 .. n - 1}

\* rocblas_internal_check_numerics_vector_template on the vector v (its name
\* and the addresses of its memory that hold a NaN/Inf): the failure status
\* only in the mode that fails, and the scan made
check_numerics_vector_template(n, v, offset, inc, stride, batch_count, check_numerics) ==
    [status |-> IF check_numerics = "fail"
                   /\ VectorScanAddrs(n, offset, inc, stride, batch_count) \cap v.bad # {}
                THEN check_numerics_fail ELSE success,
     scans |-> {<<v.name, n, offset, inc, stride, batch_count>>}]

\* int64_t n_x = trans_a == rocblas_operation_none ? n : m;
n_xMut(trans_a, m, n) == IF trans_a = none THEN m ELSE n
n_x(trans_a, m, n) == IF trans_a = none THEN n ELSE m

\* int64_t n_y = trans_a == rocblas_operation_none ? m : n;
n_y(trans_a, m, n) == IF trans_a = none THEN m ELSE n

rocblas_gbmv_check_numerics(trans_a, m, n, A, x, offset_x, inc_x, stride_x, y, offset_y, inc_y, stride_y, batch_count, check_numerics, is_input) ==
    IF is_input
    THEN check_numerics_vector_template(n_x(trans_a, m, n), x, offset_x, inc_x, stride_x,
                                        batch_count, check_numerics)
    ELSE check_numerics_vector_template(n_y(trans_a, m, n), y, offset_y, inc_y, stride_y,
                                        batch_count, check_numerics)

\* addresses of the x buffer: the batches, and one guard cell behind them
XSize(k) ==
    k.offsetx + 1 + (IF k.batch_count >= 1 THEN k.batch_count * k.stridex ELSE 0)

\* the operands as the check sees them: A, x with the caller's NaN, and y as
\* it is in device memory now
CnA == [name |-> "A", bad |-> {}]
CnX == [name |-> "x",
        bad |-> {a \in 0 .. XSize(arg) - 1 : a = cn.xnan \/ IsNaN(XData(arg, a))}]
CnY == [name |-> "y", bad |-> {a \in DOMAIN ymem : IsNaN(ymem[a])}]

\* The caller checks its input before the launcher and its output after the
\* grid has run, when the handle asks for numerics checking.
GbmvCheckNumerics(is_input) ==
    /\ cn.mode # "none"
    /\ cn.status = ""
    /\ pc = "idle" \/ (pc = "call" /\ is_input) \/ (pc = "done" /\ ~is_input)
    /\ LET r == rocblas_gbmv_check_numerics(
                    arg.transA, arg.m, arg.n, CnA, CnX, arg.offsetx, arg.incx,
                    arg.stridex, CnY, arg.offsety, arg.incy, arg.stridey,
                    arg.batch_count, cn.mode, is_input)
       IN cn' = [cn EXCEPT !.is_input = is_input, !.status = r.status,
                           !.scans = r.scans]
    /\ UNCHANGED <<arg, pointer_mode, pc, status, trace, launched, launch, blk, sdata,
                   ymem, Areads, xreads, yreads, ywrites, hy_1, klog, rep, asum, thr>>

\* ------------------------------------------- the kernel, thread by thread
\* rocblas_gbmvx_kernel<DIM_X, DIM_Y> with DIM_X = TileX and DIM_Y = TileY:
\* thr holds the block looked into (b), where each of its threads is (tpc:
\* "ready", "barrier" when it waits in __syncthreads, "exit"), the threads
\* that have reached the barrier (arrived), the block's shared memory (sd)
\* and its cells written so far (written), and every access of shared
\* memory (log): <<thread, cell, "w" or "r", "pre" or "post" the barrier,
\* whether the cell had been written>>.
Threads(blockDim) ==
    (0 .. blockDim[1] - 1) \X (0 .. blockDim[2] - 1) \X (0 .. blockDim[3] - 1)

\* sdata[tx + ty * DIM_X] = res_A;
sdata_indexMut(DIM_X, tx, ty) == tx + ty
sdata_index(DIM_X, tx, ty) == tx + ty * DIM_X

\* if(alpha) { ...; sdata[...] = res_A; __syncthreads(); }: the threads that
\* store a partial sum and wait at the barrier, whatever their index ind
StoresPartialMut(alpha, ind, max_ind) == Truthy(alpha) /\ ind < max_ind
StoresPartial(alpha, ind, max_ind) == Truthy(alpha)

\* __syncthreads(): a waiting thread goes on once every thread of the block
\* has reached the barrier
BarrierOpen(arrived, threads) == arrived = threads

\* The rest of rocblas_gbmvx_kernel_calc for thread t = (tx, ty, tz), from
\* the second thread_id on: the reduction over its column of shared memory
\* and the update of its element of y, then the thread exits.
ThreadUpdate(t, k, DIM_X, DIM_Y, alpha, beta, y) ==
    LET thread_id == t[1] + t[2] * k.blockDim[1]
        ind == thr.b[1] * DIM_X + thread_id
        max_ind == IF k.transA = none THEN k.m ELSE k.n
        order == reduce_order(DIM_X, DIM_Y, thread_id, 1, <<thread_id>>)
        a == y + ind * k.incy
    IN IF WritesY(DIM_X, thread_id, ind, max_ind)
       THEN LET s == thread_sum(DIM_X, DIM_Y, alpha, thr.sd, thread_id) IN
            /\ ymem' = [ymem EXCEPT ![a] = UpdateY(alpha, beta, s, ymem[a])]
            /\ thr' = [thr EXCEPT
                           !.tpc[t] = "exit",
                           !.sd[thread_id] = IF Truthy(alpha) THEN s ELSE @,
                           !.written = IF Truthy(alpha) THEN @ \cup {thread_id} ELSE @,
                           !.log = IF Truthy(alpha)
                                   THEN @ \cup {<<t, order[i], "r", "post",
                                                   order[i] \in thr.written>> :
                                                     i \in DOMAIN order}
                                          \cup {<<t, thread_id, "w", "post", TRUE>>}
                                   ELSE @]
       ELSE /\ thr' = [thr EXCEPT !.tpc[t] = "exit"]
            /\ UNCHANGED ymem

\* Thread t runs rocblas_gbmvx_kernel from its start to the barrier, or to
\* its end when it does not take the branch with the barrier.
ThreadStart(t) ==
    /\ pc = "threads"
    /\ t \in DOMAIN thr.tpc
    /\ thr.tpc[t] = "ready"
    /\ LET k == launch
           DIM_X == TileX
           DIM_Y == TileY
           bx == thr.b[1]
           by == thr.b[2]
           num_threads == k.blockDim[1] * k.blockDim[2] * k.blockDim[3]
           alpha == load_scalar(k.alphaa, BatchOf(bx, by), 0)
           beta == load_scalar(k.betaa, BatchOf(bx, by), 0)
           A == cond_load_ptr_batch(Truthy(alpha), k.Aa, BatchOf(bx, by), k.shifta,
                                    k.strideA)
           x == cond_load_ptr_batch(Truthy(alpha), k.xa, BatchOf(bx, by), k.shiftx,
                                    k.stridex)
           y == load_ptr_batch(k.ya, BatchOf(bx, by), k.shifty, k.stridey)
           ind == bx * DIM_X + t[1]
           max_ind == IF k.transA = none THEN k.m ELSE k.n
           cell == sdata_index(DIM_X, t[1], t[2])
       IN IF WrongThreads(DIM_X, DIM_Y, num_threads) \/ KernelSkip(alpha, beta)
          THEN /\ thr' = [thr EXCEPT !.tpc[t] = "exit"]
               /\ UNCHANGED ymem
          ELSE IF StoresPartial(alpha, ind, max_ind)
          THEN /\ thr' = [thr EXCEPT
                              !.tpc[t] = "barrier",
                              !.arrived = @ \cup {t},
                              !.sd[cell] = calc_partial(DIM_X, DIM_Y, t[1], t[2], bx,
                                                        k, A, x).res_A,
                              !.written = @ \cup {cell},
                              !.log = @ \cup {<<t, cell, "w", "pre", TRUE>>}]
               /\ UNCHANGED ymem
          ELSE ThreadUpdate(t, k, DIM_X, DIM_Y, alpha, beta, y)
    /\ UNCHANGED <<arg, pointer_mode, pc, status, trace, launched, launch, blk, sdata,
                   Areads, xreads, yreads, ywrites, hy_1, klog, rep, asum, cn>>

\* Thread t leaves the barrier and runs the kernel to its end.
ThreadFinish(t) ==
    /\ pc = "threads"
    /\ t \in DOMAIN thr.tpc
    /\ thr.tpc[t] = "barrier"
    /\ BarrierOpen(thr.arrived, DOMAIN thr.tpc)
    /\ LET k == launch
           bx == thr.b[1]
           by == thr.b[2]
           alpha == load_scalar(k.alphaa, BatchOf(bx, by), 0)
           beta == load_scalar(k.betaa, BatchOf(bx, by), 0)
           y == load_ptr_batch(k.ya, BatchOf(bx, by), k.shifty, k.stridey)
       IN ThreadUpdate(t, k, TileX, TileY, alpha, beta, y)
    /\ UNCHANGED <<arg, pointer_mode, pc, status, trace, launched, launch, blk, sdata,
                   Areads, xreads, yreads, ywrites, hy_1, klog, rep, asum, cn>>

\* --------------------------------------------------------- specifications
Alphas == {Zero, Cx(1, 1)}
Betas == {Zero, One, Cx(2, 0 - 1)}

\* memory layouts of a call: padding rows of A (lda = kl + ku + 1 + pad),
\* the increments of x and y, and the batch count
Layouts ==
    {[pad |-> 0, incx |-> 1, incy |-> 1, batch_count |-> 1],
     [pad |-> 1, incx |-> 0 - 2, incy |-> 2, batch_count |-> MaxBatch],
     [pad |-> 0, incx |-> 2, incy |-> 0 - 1, batch_count |-> MaxBatch],
     [pad |-> 1, incx |-> 0 - 1, incy |-> 0 - 2, batch_count |-> 1]}

\* the calls with the given transpose kinds, dimensions, band widths, scalars
\* and layouts; batches are packed one behind the other
Args(ops, ms, ns, bands, alphas, betas, layouts) ==
    {[transA |-> t, m |-> m, n |-> n, kl |-> kl, ku |-> ku,
      lda |-> kl + ku + 1 + l.pad, alpha |-> al, beta |-> be,
      incx |-> l.incx, incy |-> l.incy,
      offseta |-> 1, offsetx |-> 1, offsety |-> 1,
      strideA |-> (kl + ku + 1 + l.pad) * (IF n >= 1 THEN n ELSE 1),
      stridex |-> Extent(LenX(t, m, n), l.incx),
      stridey |-> Extent(LenY(t, m, n), l.incy),
      batch_count |-> l.batch_count, batched |-> FALSE] :
        t \in ops, m \in ms, n \in ns, kl \in bands, ku \in bands,
        al \in alphas, be \in betas, l \in layouts}

\* the gbmv side at its first call (mode "call") or with no call at all
\* (mode "idle")
GbmvStart(args, mode) ==
    /\ arg \in args
    /\ pointer_mode = host
    /\ pc = mode
    /\ status = ""
    /\ trace = <<>>
    /\ launched = FALSE
    /\ launch = NoLaunch
    /\ blk = <<>>
    /\ sdata = <<>>
    /\ ymem = Y0(arg)
    /\ Areads = {}
    /\ xreads = {}
    /\ yreads = {}
    /\ ywrites = {}
    /\ hy_1 = <<>>
    /\ klog = {}
    /\ rep = [iter |-> 0, y_2 |-> <<>>]

\* no call of rocblas_gbmv_check_numerics, no thread block looked into
CnIdle == [mode |-> "none", xnan |-> 0 - 1, is_input |-> FALSE, status |-> "", scans |-> {}]
ThrIdle == <<>>

InitWith(args) ==
    GbmvStart(args, "call") /\ asum = AsumIdle /\ cn = CnIdle /\ thr = ThrIdle

\* core: every transpose kind, shape, band, scalar pair and layout
Init == InitWith(Args(Operations, {1, MaxDim}, {1, MaxDim}, {0, MaxBand},
                      Alphas, Betas, Layouts))

\* degenerate calls: zero and negative dimensions and batch counts
EdgeLayouts ==
    {[pad |-> 0, incx |-> 1, incy |-> 1, batch_count |-> 0],
     [pad |-> 1, incx |-> 0 - 2, incy |-> 0 - 1, batch_count |-> 1],
     [pad |-> 0, incx |-> 2, incy |-> 0 - 2, batch_count |-> 0 - MaxNeg]}

InitEdge == InitWith(Args(Operations, (0 - MaxNeg) .. 1, (0 - MaxNeg) .. 1,
                          {0, MaxBand}, Alphas, Betas, EdgeLayouts))

\* grids of more than one block: output lengths around GBMVX_DIM_X
GridLayouts ==
    {[pad |-> 0, incx |-> 1, incy |-> 1, batch_count |-> 1],
     [pad |-> 1, incx |-> 0 - 2, incy |-> 0 - 1, batch_count |-> 1]}

InitGrid ==
    InitWith(Args(Operations, {1, GBMVX_DIM_X, GBMVX_DIM_X + 1}, {1, GBMVX_DIM_X + 1},
                  {MaxBand}, {Cx(1, 1)}, {Cx(2, 0 - 1)}, GridLayouts)
             \cup
             Args({none, transpose}, {GBMVX_DIM_X + 1}, {GBMVX_DIM_X + 1},
                  {MaxBand}, {Zero, Cx(1, 1)}, {Cx(2, 0 - 1)},
                  {[pad |-> 0, incx |-> 0 - 1, incy |-> 2, batch_count |-> 2]})
             \cup
             Args({none, conjugate_transpose}, {1, GBMVX_DIM_X + 1}, {1},
                  {MaxBand}, {Zero}, {Zero, One}, GridLayouts))

\* batched calls in both addressing kinds: strided, and pointer-batched with
\* the array holding the same batch bases
BatchLayouts == {l \in Layouts : l.batch_count = MaxBatch}

Batched(args) == {[a EXCEPT !.batched = TRUE] : a \in args}

BatchArgs ==
    Args(Operations, {MaxDim}, {1, MaxDim}, {MaxBand}, Alphas, {Zero, Cx(2, 0 - 1)},
         BatchLayouts)
    \cup Args({none}, {GBMVX_DIM_X + 1}, {1}, {MaxBand}, {Cx(1, 1)}, {Cx(2, 0 - 1)},
              {l \in BatchLayouts : l.pad = 0})

InitBatch == InitWith(BatchArgs \cup Batched(BatchArgs))

\* thread-block shapes a caller of the kernel can ask for
Shapes ==
    {<<GBMVX_DIM_X, GBMVX_DIM_Y, 1>>, <<GBMVX_DIM_X \div 2, GBMVX_DIM_Y, 1>>,
     <<GBMVX_DIM_X, GBMVX_DIM_Y \div 2, 1>>, <<GBMVX_DIM_X, GBMVX_DIM_Y, 2>>}

\* rocblas_gbmvx_kernel<GBMVX_DIM_X, GBMVX_DIM_Y> launched directly, with the
\* launcher's arguments and grid but with a thread-block shape of the
\* caller's choosing
InitDirect(args, shapes) ==
    /\ arg \in args
    /\ pointer_mode = device
    /\ pc = "kernel"
    /\ status = ""
    /\ trace = <<"launch">>
    /\ launched = TRUE
    /\ \E threads \in shapes :
           launch = KernelArgs(TRUE,
                               ShiftX(arg.transA, arg.m, arg.n, arg.offsetx, arg.incx),
                               ShiftY(arg.transA, arg.m, arg.n, arg.offsety, arg.incy),
                               <<Blocks(BlockDim(arg.transA, arg.m, arg.n)),
                                 arg.batch_count>>,
                               threads)
    /\ blk = [b \in GridBlocks(Blocks(BlockDim(arg.transA, arg.m, arg.n)),
                               arg.batch_count) |-> "ready"]
    /\ sdata = [b \in DOMAIN blk |-> <<>>]
    /\ ymem = Y0(arg)
    /\ Areads = {}
    /\ xreads = {}
    /\ yreads = {}
    /\ ywrites = {}
    /\ hy_1 = <<>>
    /\ klog = {}
    /\ rep = [iter |-> 0, y_2 |-> <<>>]
    /\ asum = AsumIdle
    /\ cn = CnIdle
    /\ thr = ThrIdle

KernelArgSet ==
    Args(Operations, {1, MaxDim}, {MaxDim}, {MaxBand}, Alphas, Betas,
         {l \in Layouts : l.pad = 0})

InitKernel == InitWith(KernelArgSet) \/ InitDirect(KernelArgSet, Shapes)

Next ==
    \/ Launcher
    \/ \E b \in DOMAIN blk : BlockStart(b[1], b[2])
    \/ \E b \in DOMAIN blk : BlockFinish(b[1], b[2])
    \/ StreamSync
    \/ SetPointerMode

Spec == Init /\ [][Next]_vars
SpecEdge == InitEdge /\ [][Next]_vars
SpecGrid == InitGrid /\ [][Next]_vars
SpecBatch == InitBatch /\ [][Next]_vars
SpecKernel == InitKernel /\ [][Next]_vars

\* ----------------------------------------------------- asum specifications
\* the asum calls with the given entry points, lengths, increments, batch
\* counts, pointers and data; rocblas_asum has no batch count
AsumCalls(apis, ns, incxs, bcs, xs, results, datas) ==
    {[api |-> a, handle |-> TRUE, n |-> n, x |-> x, incx |-> i,
      stridex |-> IF a = "asum" THEN 0 ELSE IF n >= 1 /\ i >= 1 THEN n * i ELSE 1,
      batch_count |-> b, result |-> r, data |-> d] :
        a \in apis, n \in ns, i \in incxs, b \in bcs, x \in xs, r \in results,
        d \in datas}
    \ {c \in [api : {"asum"}, handle : {TRUE}, n : ns, x : xs, incx : incxs,
              stridex : {0}, batch_count : bcs \ {1}, result : results, data : datas] :
           TRUE}

Handles(queries, layers, numerics, sizes) ==
    [query : queries, layer_mode : layers, check_numerics : numerics,
     pointer_mode : {host}, query_size : sizes]

Apis == {"asum", "asum_strided_batched"}

AllLogs == {"log_trace", "log_bench", "log_profile"}

\* the asum side at its first call c on handle h, the result buffers not set
AsumStart(c, h) ==
    [pc |-> "call", call |-> c, handle |-> h, status |-> "", ev |-> <<>>,
     hr_1 |-> [b \in ResultCells(c.batch_count) |-> NaN],
     dr |-> [b \in ResultCells(c.batch_count) |-> NaN],
     hr_2 |-> <<>>, iter |-> 0, w_mem |-> 0]

\* degenerate sizes and null pointers, in and out of size-query mode
AsumEdgeStarts ==
    {AsumStart(c, h) :
        c \in AsumCalls(Apis, (0 - MaxNeg) .. MaxDim, (0 - 1) .. 2,
                        (0 - MaxNeg) .. MaxBatch, {"null", "dx"}, {"null", "buf"},
                        {"plain"}),
        h \in Handles(BOOLEAN, {{}}, {"none"}, {0})}

\* regular calls with every logging and numerics-checking setting
AsumRegularStarts ==
    {AsumStart(c, h) :
        c \in AsumCalls(Apis, {1, MaxDim}, {1, 2}, {1, MaxBatch}, {"dx"}, {"buf"},
                        {"plain", "nan"}),
        h \in Handles({FALSE}, {{}, AllLogs}, {"none", "warn", "fail"}, {0})}

\* a null handle, and size queries on a handle that already holds a size
AsumHandleStarts ==
    {AsumStart([c EXCEPT !.handle = FALSE], h) :
        c \in AsumCalls(Apis, {MaxDim}, {1}, {1}, {"null", "dx"}, {"buf"}, {"plain"}),
        h \in Handles({FALSE}, {{}}, {"none"}, {0})}
    \cup {AsumStart(c, h) :
             c \in AsumCalls(Apis, {0, MaxDim}, {1}, {1}, {"null"}, {"null"}, {"plain"}),
             h \in Handles({TRUE}, {AllLogs}, {"fail"}, {8})}

IdleArgs == Args({none}, {0}, {0}, {0}, {Zero}, {One}, {l \in EdgeLayouts : l.pad = 1})

InitAsum ==
    /\ GbmvStart(IdleArgs, "idle")
    /\ asum \in AsumEdgeStarts \cup AsumRegularStarts \cup AsumHandleStarts
    /\ cn = CnIdle
    /\ thr = ThrIdle

NextAsum ==
    \/ AsumEnter
    \/ AsumLog
    \/ AsumArgCheck
    \/ AsumMalloc
    \/ AsumCheckNumerics
    \/ AsumLaunch
    \/ AsumSetPointerMode
    \/ AsumRepeat

SpecAsum == InitAsum /\ [][NextAsum]_vars

\* the repeatability checks of both clients, side by side: gbmv calls whose
\* grid has two blocks (along X, or along Y), and batched asum calls
RepeatArgs ==
    Args({none}, {GBMVX_DIM_X + 1}, {1}, {MaxBand}, {Cx(1, 1)},
         {Cx(2, 0 - 1)}, {l \in GridLayouts : l.pad = 0})
    \cup Args({transpose}, {MaxDim}, {MaxDim}, {MaxBand}, {Cx(1, 1)}, {Zero},
              BatchLayouts)

AsumRepeatStarts ==
    {AsumStart(c, h) :
        c \in AsumCalls({"asum_strided_batched"}, {MaxDim}, {2}, {MaxBatch},
                        {"dx"}, {"buf"}, {"plain"}),
        h \in Handles({FALSE}, {{}}, {"none"}, {0})}

InitRepeat ==
    /\ GbmvStart(RepeatArgs, "call")
    /\ asum \in AsumRepeatStarts
    /\ cn = CnIdle
    /\ thr = ThrIdle

NextRepeat ==
    \/ Launcher
    \/ \E b \in DOMAIN blk : BlockStart(b[1], b[2])
    \/ \E b \in DOMAIN blk : BlockFinish(b[1], b[2])
    \/ StreamSync
    \/ SetPointerMode
    \/ Reissue
    \/ NextAsum

SpecRepeat == InitRepeat /\ [][NextRepeat]_vars

\* -------------------------------------------- numerics-check specification
\* calls that are computed and checked, and calls with one NaN in x that are
\* only checked: the NaN is the first or the last element of a batch
NumericsArgs ==
    Args(Operations, {1, MaxDim}, {1, MaxDim}, {MaxBand}, {Cx(1, 1)},
         {Zero, Cx(2, 0 - 1)}, Layouts)

NaNSpots(k) ==
    {k.offsetx + b * k.stridex + i * Abs(k.incx) :
        b \in {0, k.batch_count - 1}, i \in {0, LenX(k.transA, k.m, k.n) - 1}}

InitNumerics ==
    /\ asum = AsumIdle
    /\ thr = ThrIdle
    /\ \/ /\ GbmvStart(NumericsArgs, "call")
          /\ cn \in {[CnIdle EXCEPT !.mode = md] : md \in {"none", "warn", "fail"}}
       \/ /\ GbmvStart(NumericsArgs, "idle")
          /\ cn \in {[CnIdle EXCEPT !.mode = md, !.xnan = a] :
                        md \in {"warn", "fail"}, a \in NaNSpots(arg)}

NextNumerics ==
    \/ Launcher
    \/ \E b \in DOMAIN blk : BlockStart(b[1], b[2])
    \/ \E b \in DOMAIN blk : BlockFinish(b[1], b[2])
    \/ StreamSync
    \/ \E is_input \in BOOLEAN : GbmvCheckNumerics(is_input)

SpecNumerics == InitNumerics /\ [][NextNumerics]_vars

\* ------------------------------------------------- thread specification
\* blocks = (block_dim - 1) / DIM_X + 1 for the tile TileX
TileBlocks(block_dim) == CDiv(block_dim - 1, TileX) + 1

\* the calls and thread-block shapes followed: the launcher's shape with a
\* nonzero and with a zero alpha, a flat shape with the right number of
\* threads, and a shape with too few threads
ThreadStarts ==
    (Args(Operations, {TileX + 1}, {MaxDim}, {MaxBand}, {Cx(1, 1)}, {Cx(2, 0 - 1)},
          {l \in Layouts : l.batch_count = 1})
        \X {<<TileX, TileY, 1>>})
    \cup (Args({none}, {TileX + 1}, {MaxDim}, {MaxBand}, {Zero, Cx(1, 1)},
               {Zero, One, Cx(2, 0 - 1)},
               {l \in Layouts : l.batch_count = 1 /\ l.pad = 0})
             \X {<<TileX, TileY, 1>>})
    \cup (Args({none, transpose}, {TileX + 1}, {MaxDim}, {MaxBand}, {Cx(1, 1)},
               {Cx(2, 0 - 1)}, {l \in Layouts : l.batch_count = 1 /\ l.pad = 0})
             \X {<<TileX * TileY, 1, 1>>})
    \cup (Args(Operations, {1, TileX + 1}, {MaxDim}, {MaxBand}, Alphas, Betas,
               {l \in Layouts : l.batch_count = 1})
             \X {<<TileX, 1, 1>>})

\* block b of a grid of blocks of shape threads, about to run
ThrStart(b, threads) ==
    [b |-> b, tpc |-> [t \in Threads(threads) |-> "ready"], arrived |-> {},
     sd |-> [c \in 0 .. TileX * TileY - 1 |-> NaN], written |-> {}, log |-> {}]

InitThreads ==
    /\ pointer_mode = device
    /\ pc = "threads"
    /\ status = success
    /\ trace = <<"launch">>
    /\ launched = TRUE
    /\ \E start \in ThreadStarts :
           /\ arg = start[1]
           /\ launch = KernelArgs(TRUE,
                                  ShiftX(arg.transA, arg.m, arg.n, arg.offsetx, arg.incx),
                                  ShiftY(arg.transA, arg.m, arg.n, arg.offsety, arg.incy),
                                  <<TileBlocks(BlockDim(arg.transA, arg.m, arg.n)),
                                    arg.batch_count>>,
                                  start[2])
           /\ \E b \in GridBlocks(TileBlocks(BlockDim(arg.transA, arg.m, arg.n)),
                                   arg.batch_count) :
                  thr = ThrStart(b, start[2])
    /\ blk = <<>>
    /\ sdata = <<>>
    /\ ymem = Y0(arg)
    /\ Areads = {}
    /\ xreads = {}
    /\ yreads = {}
    /\ ywrites = {}
    /\ hy_1 = <<>>
    /\ klog = {}
    /\ rep = [iter |-> 0, y_2 |-> <<>>]
    /\ asum = AsumIdle
    /\ cn = CnIdle

NextThreads ==
    \/ \E t \in DOMAIN thr.tpc : ThreadStart(t)
    \/ \E t \in DOMAIN thr.tpc : ThreadFinish(t)

\* every thread of a resident block is scheduled again and again
SpecThreads == InitThreads /\ [][NextThreads]_vars /\ WF_vars(NextThreads)

\* ------------------------------------------------ the mathematical product
\* address of logical element i of batch b of a vector of length len: with a
\* negative increment the vector is stored backward from offset
VecAddr(offset, stride, inc, len, b, i) ==
    offset + b * stride + (IF inc < 0 THEN (len - 1 - i) * (0 - inc) ELSE i * inc)

XAddr(k, b, j) == VecAddr(k.offsetx, k.stridex, k.incx, LenX(k.transA, k.m, k.n), b, j)
YAddr(k, b, i) == VecAddr(k.offsety, k.stridey, k.incy, LenY(k.transA, k.m, k.n), b, i)

\* A(r, c) of batch b: stored at row ku - c + r of column c inside the band,
\* zero outside it
BandA(k, b, r, c) ==
    IF r - c >= 0 - k.ku /\ r - c <= k.kl
    THEN AData(k, k.offseta + b * k.strideA + (k.ku - c + r) + c * k.lda)
    ELSE Zero

\* op(A)(i, j)
OpA(k, b, i, j) ==
    IF k.transA = none THEN BandA(k, b, i, j)
    ELSE IF k.transA = transpose THEN BandA(k, b, j, i)
    ELSE conj(BandA(k, b, j, i))

\* (op(A) x)(i) of batch b, the terms j .. LenX - 1
RECURSIVE DotFrom(_, _, _, _)
DotFrom(k, b, i, j) ==
    IF j >= LenX(k.transA, k.m, k.n) THEN Zero
    ELSE Add(Mul(OpA(k, b, i, j), XData(k, XAddr(k, b, j))), DotFrom(k, b, i, j + 1))

Dot(k, b, i) == DotFrom(k, b, i, 0)

\* beta * yold over the integers, where 0 * yold is 0 whatever yold is
Scaled(beta, yold) == IF beta = Zero THEN Zero ELSE Mul(beta, yold)

\* y after the call: alpha * op(A) * x + beta * y_old on the logical elements
\* of each batch, every other cell of the buffer as before
RefY(k) ==
    [a \in 0 .. YSize(k) - 1 |->
        IF \E b \in 0 .. k.batch_count - 1, i \in 0 .. LenY(k.transA, k.m, k.n) - 1 :
               YAddr(k, b, i) = a
        THEN LET e == CHOOSE e \in (0 .. k.batch_count - 1)
                                   \X (0 .. LenY(k.transA, k.m, k.n) - 1) :
                          YAddr(k, e[1], e[2]) = a
             IN Add(Mul(k.alpha, Dot(k, e[1], e[2])), Scaled(k.beta, YData(k, a)))
        ELSE YData(k, a)]

Positive(k) == k.m >= 1 /\ k.n >= 1 /\ k.batch_count >= 1

\* ------------------------------------------------------------------ claims
\* C1: for m, n >= 1, kl, ku >= 0, lda >= kl + ku + 1, once the call is done
\* y equals alpha * op(A) * x + beta * y_old, with op(A) = A, A^T or conj(A)^T
\* and A(r, c) the value stored at row ku - c + r of column c inside the band
\* and zero outside it; no other cell of the y buffer has changed.
C1_Product == (pc = "done" /\ Positive(arg)) => ymem = RefY(arg)

\* a conjugate-transpose call on the largest shape and band, with negative
\* increments and general alpha and beta, has completed in device mode
C1_Witness ==
    /\ pc = "done" /\ pointer_mode = device
    /\ arg.transA = conjugate_transpose
    /\ arg.m = MaxDim /\ arg.n = MaxDim /\ arg.kl = MaxBand /\ arg.ku = MaxBand
    /\ arg.alpha = Cx(1, 1) /\ arg.beta = Cx(2, 0 - 1)
    /\ arg.incx < 0 /\ arg.incy < 0
    /\ ymem # Y0(arg)
    /\ ymem = RefY(arg)

\* C2: when beta == 0 the kernel never reads y, and every written element is
\* exactly alpha * sum_i for a nonzero alpha and exactly 0 for alpha == 0,
\* whatever y held before (here: uninitialised memory), in both pointer modes.
C2_BetaZeroNoRead ==
    arg.beta = Zero =>
        /\ yreads = {}
        /\ \A w \in ywrites :
               /\ w[5] \in DOMAIN ymem
               /\ ymem[w[5]] = (IF Truthy(arg.alpha)
                                THEN Mul(arg.alpha, Dot(arg, w[1], w[4])) ELSE Zero)
               /\ ~IsNaN(ymem[w[5]])

\* beta == 0, alpha nonzero, y uninitialised, every element written
C2_Witness ==
    /\ pc = "done" /\ pointer_mode = device
    /\ arg.beta = Zero /\ Truthy(arg.alpha)
    /\ arg.transA = transpose /\ arg.m = MaxDim /\ arg.n = MaxDim
    /\ \A a \in DOMAIN ymem : IsNaN(Y0(arg)[a])
    /\ Cardinality(ywrites) = MaxDim * arg.batch_count

\* C3: a call with alpha == 0 and beta == 1 writes nothing and leaves y as it
\* was, in both pointer modes: in host mode no kernel is launched, in device
\* mode every block returns before it reads or writes an operand.
C3_NoOp ==
    (arg.alpha = Zero /\ arg.beta = One) =>
        /\ ymem = Y0(arg)
        /\ ywrites = {} /\ yreads = {} /\ Areads = {} /\ xreads = {}
        /\ pointer_mode = host => ~launched /\ pc # "kernel"
        /\ \A b \in DOMAIN blk : blk[b] \in {"ready", "exit"}

\* device mode, alpha == 0 and beta == 1: the grid was launched and has run
C3_Witness ==
    /\ arg.alpha = Zero /\ arg.beta = One
    /\ pointer_mode = device /\ pc = "done" /\ launched
    /\ DOMAIN blk # {}
    /\ \A b \in DOMAIN blk : blk[b] = "exit"

\* C4: with m == 0 or n == 0 or batch_count == 0 the launcher returns success
\* without launching a kernel and without dereferencing alpha, beta, A, x or
\* y; y is unchanged.
C4_QuickReturn ==
    (arg.m = 0 \/ arg.n = 0 \/ arg.batch_count = 0) =>
        /\ ~launched /\ pc # "kernel" /\ DOMAIN blk = {}
        /\ trace = <<>>
        /\ Areads = {} /\ xreads = {} /\ yreads = {} /\ ywrites = {}
        /\ ymem = Y0(arg)
        /\ pc = "done" => status = success

\* a call with n == 0 and m, batch_count nonzero has returned in device mode
C4_Witness ==
    /\ arg.n = 0 /\ arg.m = 1 /\ arg.batch_count = 1
    /\ pointer_mode = device /\ pc = "done" /\ status = success

\* C5: for batch_count <= 0 or m <= 0 or n <= 0, negative values included,
\* the call returns success and leaves every element of y unchanged, alike in
\* host and device pointer mode.
C5_NonPositive ==
    (pc = "done" /\ (arg.batch_count <= 0 \/ arg.m <= 0 \/ arg.n <= 0)) =>
        /\ status = success
        /\ ymem = Y0(arg)
        /\ pointer_mode = device => ymem = hy_1

\* C6: every element of A a thread reads is A[row + col * lda] with
\* 0 <= row <= kl + ku, 0 <= col < n and logical row r = row - ku + col in
\* [0, m): the corners of the band storage and the rows from kl + ku + 1 on
\* are never read, for every transpose kind.
C6_BandReads ==
    \A c \in Areads :
        /\ c[2] >= 0 /\ c[2] <= arg.kl + arg.ku
        /\ c[3] >= 0 /\ c[3] < arg.n
        /\ c[2] - arg.ku + c[3] >= 0 /\ c[2] - arg.ku + c[3] < arg.m
        /\ c[1] \in 0 .. arg.batch_count - 1

\* a transposed call on padded storage (lda > kl + ku + 1) with unused
\* corners has read every cell of the band and nothing else
C6_Witness ==
    /\ pc = "done" /\ arg.transA = transpose
    /\ arg.lda > arg.kl + arg.ku + 1
    /\ arg.m = 1 /\ arg.n = MaxDim /\ arg.kl = MaxBand /\ arg.ku = MaxBand
    /\ Areads # {}
    /\ Cardinality(Areads) < (arg.kl + arg.ku + 1) * arg.n * arg.batch_count

CeilDiv(l, d) == (l + d - 1) \div d

\* the launch, when there is one, has ceil(L / DIM_X) blocks along X and
\* batch_count along Y
GridAsClaimed ==
    launched =>
        launch.grid = <<CeilDiv(BlockDim(arg.transA, arg.m, arg.n), GBMVX_DIM_X),
                        arg.batch_count>>

\* every write so far is to an index below L, by the thread of its block with
\* threadIdx.y == 0 and blockIdx.x * DIM_X + threadIdx.x == index
WritersAsClaimed ==
    \A w \in ywrites :
        /\ w[4] >= 0 /\ w[4] < BlockDim(arg.transA, arg.m, arg.n)
        /\ w[3] \div GBMVX_DIM_X = 0
        /\ w[2] * GBMVX_DIM_X + (w[3] % GBMVX_DIM_X) = w[4]

\* the number of threads of the grid that wrote index i of batch b
Writers(b, i) == Cardinality({w \in ywrites : w[1] = b /\ w[4] = i})

\* C8 as claimed: for L >= 1 and batch_count >= 1 the grid is ceil(L / DIM_X)
\* by batch_count blocks, every output index in [0, L) of every batch is
\* written by exactly one thread of the grid (threadIdx.y == 0 and
\* blockIdx.x * DIM_X + threadIdx.x == index), and no thread writes an index
\* >= L.
C8_AsClaimed ==
    Positive(arg) =>
        /\ GridAsClaimed
        /\ WritersAsClaimed
        /\ pc = "done" =>
               \A b \in 0 .. arg.batch_count - 1 :
                   \A i \in 0 .. BlockDim(arg.transA, arg.m, arg.n) - 1 :
                       Writers(b, i) = 1

\* C8 as amended: the same, except that with alpha == 0 and beta == 1 no
\* thread writes anything (and in host pointer mode no grid is launched).
C8_OneWriter ==
    Positive(arg) =>
        /\ GridAsClaimed
        /\ WritersAsClaimed
        /\ pc = "done" =>
               \A b \in 0 .. arg.batch_count - 1 :
                   \A i \in 0 .. BlockDim(arg.transA, arg.m, arg.n) - 1 :
                       Writers(b, i) = (IF arg.alpha = Zero /\ arg.beta = One
                                        THEN 0 ELSE 1)

\* a call with L = DIM_X + 1 and two batches has run its 2 x 2 grid: the
\* second block of each row wrote index DIM_X alone
C8_Witness ==
    /\ pc = "done" /\ pointer_mode = device
    /\ arg.transA = transpose /\ arg.n = GBMVX_DIM_X + 1 /\ arg.batch_count = 2
    /\ launch.grid = <<2, 2>>
    /\ Cardinality(ywrites) = 2 * (GBMVX_DIM_X + 1)
    /\ \E w \in ywrites : w[1] = 1 /\ w[2] = 1 /\ w[3] = 0 /\ w[4] = GBMVX_DIM_X

\* C9: with m, n, batch_count all nonzero, in device pointer mode the launcher
\* always launches the kernel and never dereferences alpha or beta on the
\* host; in host pointer mode it dereferences alpha and beta before the
\* launch and launches if and only if not (alpha == 0 and beta == 1); it
\* returns success in every case.
C9_PointerMode ==
    (pc # "call" /\ arg.m # 0 /\ arg.n # 0 /\ arg.batch_count # 0) =>
        /\ status = success
        /\ pointer_mode = device =>
               /\ launched
               /\ trace = <<"launch">>
        /\ pointer_mode = host =>
               /\ launched <=> ~(arg.alpha = Zero /\ arg.beta = One)
               /\ launched <=> (\E i \in DOMAIN trace : trace[i] = "launch")
               /\ trace[1] = "*alpha"
               /\ \E i \in DOMAIN trace : trace[i] = "*beta"
               /\ \A i, j \in DOMAIN trace :
                      (trace[i] = "launch" /\ trace[j] # "launch") => j < i

\* host mode, alpha == 0 and beta # 1: both scalars were read on the host and
\* then the kernel was launched
C9_Witness ==
    /\ pointer_mode = host /\ pc = "done" /\ status = success
    /\ arg.alpha = Zero /\ arg.beta = Zero
    /\ launched /\ trace[Len(trace)] = "launch"

\* C10: for identical inputs the call in host pointer mode and the call in
\* device pointer mode leave y in the same final state, also with alpha == 0
\* and with beta in {0, 1}.
C10_SameY ==
    (pc = "done" /\ pointer_mode = device) => ymem = hy_1

\* alpha == 0 and beta == 0: the host-mode call and the device-mode call have
\* both run and both changed y
C10_Witness ==
    /\ pc = "done" /\ pointer_mode = device
    /\ arg.alpha = Zero /\ arg.beta = Zero
    /\ arg.m = MaxDim /\ arg.n = 1 /\ arg.batch_count = MaxBatch
    /\ hy_1 # Y0(arg) /\ ymem = hy_1

\* the events of the given kind in the kernel log
Events(kind) == {e \in klog : e[1] = kind}

\* C11: when alpha is zero no thread calls a traversal helper and no element
\* of A or x is read, their batch pointers are not resolved (the kernel's A
\* and x are nullptr), and each written y[i] is beta * y_old[i] when
\* beta != 0 and 0 when beta == 0.
C11_AlphaZeroFastPath ==
    arg.alpha = Zero =>
        /\ Events("helper") = {} /\ Events("rdA") = {} /\ Events("rdx") = {}
        /\ Areads = {} /\ xreads = {}
        /\ \A e \in Events("ptrA") \cup Events("ptrx") : e[4] = nullptr
        /\ \A b \in DOMAIN blk : blk[b] # "barrier"
        /\ \A w \in ywrites :
               ymem[w[5]] = (IF arg.beta # Zero THEN Mul(arg.beta, Y0(arg)[w[5]])
                             ELSE Zero)

\* alpha == 0 with a general beta: the grid has run, every block got nullptr
\* for A and x, and y was scaled
C11_Witness ==
    /\ arg.alpha = Zero /\ arg.beta = Cx(2, 0 - 1)
    /\ pc = "done" /\ pointer_mode = device
    /\ arg.m = MaxDim /\ arg.batch_count = MaxBatch
    /\ Events("ptrA") # {} /\ Events("ptrx") # {}
    /\ ywrites # {} /\ ymem # Y0(arg)

\* the elements of batch b of a buffer whose batches start stride apart
InBatch(offset, stride, b, a) == a >= offset + b * stride /\ a < offset + (b + 1) * stride

\* C13: a block with grid-Y index b resolves and touches only batch b: its
\* A, x and y pointers are base + shift + b * stride (strided) or pointer
\* array entry b + shift (pointer-batched), every element it reads or writes
\* lies in batch b of its buffer, and no block reads or writes an element that
\* another block writes, so every interleaving of the blocks gives the same y.
C13_BatchIsolation ==
    /\ \A e \in klog :
           /\ e[2] \in 0 .. arg.batch_count - 1
           /\ e[1] = "ptrA" =>
                  e[4] \in {nullptr, arg.offseta + e[2] * arg.strideA}
           /\ e[1] = "ptrx" =>
                  e[4] \in {nullptr, launch.shiftx + e[2] * arg.stridex}
           /\ e[1] = "ptry" => e[4] = launch.shifty + e[2] * arg.stridey
           /\ e[1] = "rdA" => InBatch(arg.offseta, arg.strideA, e[2], e[4])
           /\ e[1] = "rdx" => InBatch(arg.offsetx, arg.stridex, e[2], e[4])
           /\ e[1] \in {"rdy", "wry"} => InBatch(arg.offsety, arg.stridey, e[2], e[4])
    /\ \A w \in Events("wry") :
           \A e \in Events("wry") \cup Events("rdy") :
               e[4] = w[4] => (e[2] = w[2] /\ e[3] = w[3])
    /\ pc = "done" => ymem = RefY(arg)

\* a pointer-batched call with MaxBatch instances has completed: each
\* instance was read and written by its own blocks
C13_Witness ==
    /\ pc = "done" /\ arg.batched /\ arg.batch_count = MaxBatch
    /\ Truthy(arg.alpha) /\ arg.beta = Cx(2, 0 - 1)
    /\ \A b \in 0 .. MaxBatch - 1 :
           /\ \E e \in Events("rdA") : e[2] = b
           /\ \E e \in Events("rdx") : e[2] = b
           /\ \E e \in Events("wry") : e[2] = b
    /\ ymem # Y0(arg)

\* C14: the launcher always launches blocks of shape (DIM_X, DIM_Y) = (64, 16),
\* and a block whose number of threads differs from the kernel's DIM_X * DIM_Y
\* reads and writes nothing of A, x, y or shared memory and reports no error.
C14_ThreadGuard ==
    /\ (launched /\ status = success) =>
           launch.blockDim = <<GBMVX_DIM_X, GBMVX_DIM_Y, 1>>
    /\ (launched /\ launch.blockDim[1] * launch.blockDim[2] * launch.blockDim[3]
                         # GBMVX_DIM_X * GBMVX_DIM_Y) =>
           /\ klog = {}
           /\ Areads = {} /\ xreads = {} /\ yreads = {} /\ ywrites = {}
           /\ ymem = Y0(arg)
           /\ \A b \in DOMAIN sdata : DOMAIN sdata[b] = {}
           /\ \A b \in DOMAIN blk : blk[b] \in {"ready", "exit"}
           /\ status = ""

\* a grid of blocks of half the threads, with general alpha and beta, has run
\* to its end
C14_Witness ==
    /\ pc = "done" /\ launched
    /\ launch.blockDim = <<GBMVX_DIM_X \div 2, GBMVX_DIM_Y, 1>>
    /\ Truthy(arg.alpha) /\ arg.beta = Cx(2, 0 - 1)
    /\ DOMAIN blk # {} /\ \A b \in DOMAIN blk : blk[b] = "exit"

AsumEvents(kind) == {i \in DOMAIN asum.ev : asum.ev[i] = kind}

\* a step of a rocblas_asum call in size-query mode on a valid handle
QueryStep ==
    /\ asum.pc = "call"
    /\ asum.call.api = "asum"
    /\ asum.call.handle
    /\ asum.handle.query
    /\ asum' # asum

\* C15: in size-query mode rocblas_asum returns in one step, before logging,
\* argument check, allocation, numerics check and launch, and leaves the
\* result buffers alone; the status is size_unchanged when n <= 0 or
\* incx <= 0, and otherwise the handle records the workspace byte count for
\* (n, batch_count = 1) and the status is the one of that recording call.
C15_SizeQuery ==
    [][QueryStep =>
          LET c == asum.call
              bytes == rocblas_reduction_kernel_workspace_size(ROCBLAS_ASUM_NB, c.n, 1)
              r == set_optimal_device_memory_size(asum.handle, bytes)
          IN /\ asum'.pc = "done"
             /\ asum'.hr_1 = asum.hr_1 /\ asum'.dr = asum.dr
             /\ asum'.w_mem = 0
             /\ \A i \in DOMAIN asum'.ev :
                    asum'.ev[i] = "set_optimal_device_memory_size"
             /\ IF c.n <= 0 \/ c.incx <= 0
                THEN /\ asum'.status = size_unchanged
                     /\ asum'.handle = asum.handle
                     /\ asum'.ev = <<>>
                ELSE /\ asum'.status = r.status
                     /\ asum'.handle = r.handle
                     /\ asum'.handle.query_size >= bytes
                     /\ asum'.ev = <<"set_optimal_device_memory_size">>]_vars

C15_Witness ==
    /\ asum.pc = "done"
    /\ asum.call.api = "asum"
    /\ asum.call.handle
    /\ asum.handle.query
    /\ asum.call.n = MaxDim /\ asum.call.incx = 2
    /\ asum.call.x = "null" /\ asum.call.result = "null"
    /\ asum.status = size_increased
    /\ asum.handle.query_size =
           rocblas_reduction_kernel_workspace_size(ROCBLAS_ASUM_NB, MaxDim, 1)
    /\ asum.ev = <<"set_optimal_device_memory_size">>


\* the result buffers hold what they held before the first call
ResultUntouched ==
    /\ \A b \in DOMAIN asum.hr_1 : IsNaN(asum.hr_1[b])
    /\ \A b \in DOMAIN asum.dr : IsNaN(asum.dr[b])

\* C16: a null handle gives invalid_handle before anything else is looked
\* at; on a valid handle, with n > 0, incx > 0 and batch_count > 0, a null x
\* and a null result each give invalid_pointer, in both pointer modes; in
\* all these cases no workspace is allocated, no kernel is launched and no
\* result is written.
C16_BadArg ==
    asum.pc = "done" =>
        /\ ~asum.call.handle =>
               /\ asum.status = invalid_handle
               /\ asum.ev = <<>>
               /\ ResultUntouched
        /\ (/\ asum.call.handle /\ ~asum.handle.query
            /\ asum.call.n > 0 /\ asum.call.incx > 0 /\ asum.call.batch_count > 0
            /\ (asum.call.x = "null" \/ asum.call.result = "null")) =>
               /\ asum.status = invalid_pointer
               /\ AsumEvents("device_malloc") = {}
               /\ AsumEvents("launcher") = {}
               /\ AsumEvents("write_result") = {}
               /\ asum.w_mem = 0
               /\ ResultUntouched

C16_Witness ==
    /\ asum.pc = "done"
    /\ asum.handle.pointer_mode = device
    /\ asum.call.api = "asum_strided_batched"
    /\ asum.call.handle /\ ~asum.handle.query
    /\ asum.call.n = MaxDim /\ asum.call.incx = 1 /\ asum.call.batch_count = MaxBatch
    /\ asum.call.x = "dx" /\ asum.call.result = "null"
    /\ asum.status = invalid_pointer
    /\ asum.ev = <<"arg_check">>


\* an asum_strided_batched call of the client's quick-return test: an empty
\* problem with a null x and a result buffer, on a handle that computes
QuickReturnCall ==
    /\ asum.call.api = "asum_strided_batched"
    /\ asum.call.handle /\ ~asum.handle.query
    /\ asum.call.n <= 0 \/ asum.call.incx <= 0 \/ asum.call.batch_count <= 0
    /\ asum.call.x = "null" /\ asum.call.result = "buf"

\* C17: asum_strided_batched with n <= 0 or incx <= 0 or batch_count <= 0 and
\* a null x returns success in both pointer modes; with batch_count > 0 the
\* result of every batch is exactly 0, in the host buffer after the
\* host-mode call and in the device buffer after the device-mode call, and
\* with batch_count <= 0 nothing is written.
C17_QuickReturn ==
    (asum.pc = "done" /\ QuickReturnCall) =>
        /\ asum.status = success
        /\ AsumEvents("launcher") = {}
        /\ IF asum.call.batch_count > 0
           THEN /\ \A b \in 0 .. asum.call.batch_count - 1 : asum.hr_1[b] = Zero
                /\ \A b \in 0 .. asum.call.batch_count - 1 :
                       IF asum.handle.pointer_mode = device
                       THEN asum.dr[b] = Zero
                       ELSE IsNaN(asum.dr[b])
           ELSE /\ ResultUntouched
                /\ AsumEvents("write_result") = {}

C17_Witness ==
    /\ asum.pc = "done" /\ QuickReturnCall
    /\ asum.handle.pointer_mode = device
    /\ asum.call.n = MaxDim /\ asum.call.incx = 0 - 1 /\ asum.call.batch_count = MaxBatch
    /\ asum.status = success
    /\ \A b \in 0 .. MaxBatch - 1 : asum.dr[b] = Zero /\ asum.hr_1[b] = Zero


\* a finished call with incx = -1 on a vector of n > 0 elements in device
\* memory, with a result buffer, on a valid handle
ReverseCall ==
    /\ asum.pc = "done"
    /\ asum.call.handle
    /\ asum.call.incx = 0 - 1
    /\ asum.call.n > 0 /\ asum.call.batch_count > 0
    /\ asum.call.x = "dx" /\ asum.call.result = "buf"

\* the results of the same call with incx = +1
ForwardSums ==
    rocblas_internal_asum_nrm2_launcher(asum.call, asum.call.n, shiftx_0, 1,
                                        EntryStride(asum.call),
                                        EntryBatchCount(asum.call))

GotWorkspace ==
    /\ asum.pc = "done"
    /\ AsumEvents("device_malloc") # {}
    /\ asum.status # memory_error

\* what the scan of x of the finished call reports
ScanStatus ==
    rocblas_internal_check_numerics_vector_template(
        asum.call, asum.call.n, shiftx_0, asum.call.incx, EntryStride(asum.call),
        EntryBatchCount(asum.call), asum.handle.check_numerics)

\* C19: with numerics checking enabled, x is scanned once, before the
\* launcher; when the scan reports a status other than success the call
\* returns that status, the launcher is not invoked and the result is not
\* written; with checking disabled there is no scan.
C19_NumericsCheck ==
    GotWorkspace =>
        IF asum.handle.check_numerics # "none"
        THEN /\ Cardinality(AsumEvents("check_numerics")) = 1
             /\ \A i \in AsumEvents("check_numerics") :
                    \A j \in AsumEvents("launcher") : i < j
             /\ IF ScanStatus # success
                THEN /\ asum.status = ScanStatus
                     /\ AsumEvents("launcher") = {}
                     /\ AsumEvents("write_result") = {}
                     /\ ResultUntouched
                ELSE /\ asum.status = success
                     /\ AsumEvents("launcher") # {}
        ELSE /\ AsumEvents("check_numerics") = {}
             /\ asum.status = success
             /\ AsumEvents("launcher") # {}

C19_Witness ==
    /\ GotWorkspace
    /\ asum.handle.check_numerics = "fail"
    /\ asum.call.data = "nan"
    /\ asum.handle.pointer_mode = device
    /\ asum.status = check_numerics_fail
    /\ AsumEvents("check_numerics") # {}
    /\ AsumEvents("launcher") = {}
    /\ ResultUntouched


\* a call outside size-query mode that passes the argument check
PassesArgCheck ==
    /\ asum.pc # "idle"
    /\ asum.call.handle /\ ~asum.handle.query
    /\ rocblas_asum_nrm2_arg_check(asum.call.n, asum.call.x, asum.call.incx,
                                   EntryStride(asum.call), EntryBatchCount(asum.call),
                                   asum.call.result).status = status_continue

\* C20: outside size-query mode a call that passes the argument check asks
\* for a workspace of the computed byte count exactly once; it goes on only
\* holding that workspace, and when the allocation fails it returns
\* memory_error with the allocation as its last step: no second request, no
\* numerics check, no launch, no write to result.
C20_Workspace ==
    PassesArgCheck =>
        LET bytes == rocblas_reduction_kernel_workspace_size(
                         ROCBLAS_ASUM_NB, asum.call.n, EntryBatchCount(asum.call))
        IN /\ asum.pc \in {"numerics", "launch"} =>
                  /\ asum.w_mem = bytes /\ bytes > 0
                  /\ Cardinality(AsumEvents("device_malloc")) = 1
           /\ asum.pc \in {"call", "log", "arg_check", "malloc"} =>
                  AsumEvents("device_malloc") = {}
           /\ asum.pc = "done" =>
                  /\ Cardinality(AsumEvents("device_malloc")) = 1
                  /\ asum.status = memory_error =>
                         /\ asum.ev[Len(asum.ev)] = "device_malloc"
                         /\ AsumEvents("check_numerics") = {}
                         /\ AsumEvents("launcher") = {}
                         /\ AsumEvents("write_result") = {}
                         /\ asum.iter = 0 =>
                                \A b \in DOMAIN ResultNow : IsNaN(ResultNow[b])
                  /\ AsumEvents("launcher") # {} => asum.status = success

C20_Witness ==
    /\ PassesArgCheck
    /\ asum.pc = "done"
    /\ asum.handle.pointer_mode = device
    /\ asum.handle.check_numerics = "fail"
    /\ asum.call.data = "nan"
    /\ asum.status = memory_error
    /\ asum.ev = LogEvents(AllLogs) \o <<"arg_check", "device_malloc">>
    /\ \A b \in DOMAIN asum.dr : IsNaN(asum.dr[b])


\* ----------------------------------------------- numerics and thread claims
\* the element addresses of a vector of the caller, every batch
ElemAddrs(offset, stride, inc, len, batch_count) ==
    {VecAddr(offset, stride, inc, len, b, i) : b \in 0 .. batch_count - 1, i \in 0 .. len - 1}

\* C21: rocblas_gbmv_check_numerics checks exactly one vector: x for the
\* input check, with length n when trans_a is no-transpose and m otherwise,
\* and y for the output check, with length m when trans_a is no-transpose
\* and n otherwise; these are the lengths the launcher shifts a negative
\* increment by; A is never scanned, and the status is the one the vector
\* check gives for that vector.
C21_CheckNumerics ==
    cn.status # "" =>
        LET len == IF cn.is_input THEN LenX(arg.transA, arg.m, arg.n)
                   ELSE LenY(arg.transA, arg.m, arg.n)
            elems == IF cn.is_input
                     THEN ElemAddrs(arg.offsetx, arg.stridex, arg.incx, len, arg.batch_count)
                     ELSE ElemAddrs(arg.offsety, arg.stridey, arg.incy, len, arg.batch_count)
            bad == IF cn.is_input THEN CnX.bad ELSE CnY.bad
        IN /\ cn.scans =
                  IF cn.is_input
                  THEN {<<"x", IF arg.transA = none THEN arg.n ELSE arg.m,
                          arg.offsetx, arg.incx, arg.stridex, arg.batch_count>>}
                  ELSE {<<"y", IF arg.transA = none THEN arg.m ELSE arg.n,
                          arg.offsety, arg.incy, arg.stridey, arg.batch_count>>}
           /\ \A sc \in cn.scans : sc[1] # "A"
           /\ \A sc \in cn.scans :
                  /\ sc[1] = "x" /\ arg.incx < 0 =>
                         ShiftX(arg.transA, arg.m, arg.n, arg.offsetx, arg.incx)
                             = arg.offsetx - arg.incx * (sc[2] - 1)
                  /\ sc[1] = "y" /\ arg.incy < 0 =>
                         ShiftY(arg.transA, arg.m, arg.n, arg.offsety, arg.incy)
                             = arg.offsety - arg.incy * (sc[2] - 1)
           /\ cn.status = IF cn.mode = "fail" /\ elems \cap bad # {}
                          THEN check_numerics_fail ELSE success

C21_Witness ==
    /\ cn.status = check_numerics_fail
    /\ cn.is_input
    /\ arg.transA = none /\ arg.m = 1 /\ arg.n = MaxDim
    /\ arg.incx < 0
    /\ cn.xnan = arg.offsetx


\* every thread of the block has left the kernel
AllExit == \A t \in DOMAIN thr.tpc : thr.tpc[t] = "exit"

\* the threads of the block that are past their first step agree on the
\* barrier: all of them reached it or none did
BarrierUniform ==
    \A t, u \in DOMAIN thr.tpc :
        (thr.tpc[t] # "ready" /\ thr.tpc[u] # "ready")
            => (t \in thr.arrived <=> u \in thr.arrived)

\* C22: within a block either every thread reaches the __syncthreads barrier
\* or none does, threads whose output index is out of range included, so no
\* thread waits at the barrier forever and the block terminates.
C22_Barrier ==
    /\ [](pc = "threads" => BarrierUniform)
    /\ [](pc = "threads" =>
             \A t \in DOMAIN thr.tpc :
                 (Truthy(launch.alphaa.v) /\ thr.tpc[t] = "exit"
                  /\ launch.blockDim[1] * launch.blockDim[2] * launch.blockDim[3]
                         = TileX * TileY)
                     => t \in thr.arrived)
    /\ <>(pc = "threads" => AllExit)

C22_Witness ==
    /\ pc = "threads" /\ AllExit
    /\ launch.blockDim = <<TileX, TileY, 1>>
    /\ thr.arrived = DOMAIN thr.tpc
    /\ \E t \in thr.arrived :
           thr.b[1] * TileX + t[1] >= (IF arg.transA = none THEN arg.m ELSE arg.n)
    /\ arg.m = TileX + 1 /\ thr.b[1] = 1
    /\ ymem # Y0(arg)


\* accesses of shared memory: <<thread, cell, kind, phase, written before>>
SdAccess(phase) == {e \in thr.log : e[4] = phase}

\* two accesses of one cell by different threads, one of them a write
Conflict(e, o) == e[1] # o[1] /\ e[2] = o[2] /\ (e[3] = "w" \/ o[3] = "w")

\* C23: in a block of the launcher's shape, before the barrier thread
\* (tx, ty) writes only its own cell tx + ty * DIM_X; every index is inside
\* the array; after the barrier only threads with ty = 0 touch shared
\* memory, thread (tx, 0) reading cells tx + DIM_X * i and writing cell tx
\* only; every read finds a cell already written, and two accesses of one
\* cell by different threads, one of them a write, are a write before the
\* barrier and an access after it.
C23_SharedMemory ==
    (pc = "threads" /\ launch.blockDim = <<TileX, TileY, 1>>) =>
        /\ \A e \in thr.log : e[2] \in 0 .. TileX * TileY - 1
        /\ \A e \in SdAccess("pre") :
               /\ e[3] = "w"
               /\ e[2] = e[1][1] + e[1][2] * TileX
        /\ \A e \in SdAccess("post") :
               /\ e[1][2] = 0
               /\ e[3] = "w" => e[2] = e[1][1]
               /\ e[3] = "r" => \E i \in 0 .. TileY - 1 : e[2] = e[1][1] + TileX * i
               /\ e[5]
               /\ thr.arrived = DOMAIN thr.tpc
        /\ \A e, o \in thr.log :
               Conflict(e, o) =>
                   \/ e[4] = "pre" /\ e[3] = "w" /\ o[4] = "post"
                   \/ o[4] = "pre" /\ o[3] = "w" /\ e[4] = "post"
        /\ \A t \in DOMAIN thr.tpc :
               (thr.tpc[t] = "exit" /\ Truthy(launch.alphaa.v) /\ t[2] = 0
                /\ thr.b[1] * TileX + t[1] < (IF arg.transA = none THEN arg.m ELSE arg.n))
                   => \A i \in 1 .. TileY - 1 :
                          <<t, t[1] + TileX * i, "r", "post", TRUE>> \in thr.log

C23_Witness ==
    /\ pc = "threads" /\ AllExit
    /\ launch.blockDim = <<TileX, TileY, 1>>
    /\ arg.transA = conjugate_transpose
    /\ Cardinality(SdAccess("pre")) = TileX * TileY
    /\ \A tx \in 0 .. TileX - 1 :
           /\ <<<<tx, 0, 0>>, tx, "w", "post", TRUE>> \in thr.log
           /\ <<<<tx, 0, 0>>, tx + TileX * (TileY - 1), "r", "post", TRUE>> \in thr.log


\* address a is element number j < len of batch b of a vector that starts at
\* offset, with increment inc of either sign and batch stride stride
InVector(a, offset, stride, inc, len, b) ==
    \E j \in 0 .. len - 1 : a = offset + b * stride + j * Abs(inc)

\* C24: for m, n >= 1 every element of x the kernel reads is one of the Lx
\* elements of the caller's x of that batch, offsetx + j * |incx|, and every
\* element of y it reads or writes is one of the Ly elements offsety +
\* i * |incy|, for either sign of the increments; no access falls below the
\* caller's offset.
C24_InsideVectors ==
    (arg.m >= 1 /\ arg.n >= 1) =>
        LET Lx == IF arg.transA = none THEN arg.n ELSE arg.m
            Ly == IF arg.transA = none THEN arg.m ELSE arg.n
        IN /\ \A e \in Events("rdx") :
                  /\ InVector(e[4], arg.offsetx, arg.stridex, arg.incx, Lx, e[2])
                  /\ e[4] >= arg.offsetx
           /\ \A e \in Events("rdy") \cup Events("wry") :
                  /\ InVector(e[4], arg.offsety, arg.stridey, arg.incy, Ly, e[2])
                  /\ e[4] >= arg.offsety
           /\ \A a \in xreads : a >= arg.offsetx
           /\ \A a \in yreads : a >= arg.offsety
           /\ \A w \in ywrites : w[5] >= arg.offsety /\ w[5] \in DOMAIN ymem

C24_Witness ==
    /\ pc = "done"
    /\ arg.incx < 0 /\ arg.incy < 0
    /\ arg.transA = transpose /\ arg.m = MaxDim /\ arg.n = 1
    /\ arg.kl = MaxBand /\ arg.ku = MaxBand
    /\ \E e \in Events("rdx") : e[4] = arg.offsetx
    /\ \E e \in Events("rdx") : e[4] = arg.offsetx + (arg.m - 1) * Abs(arg.incx)
    /\ \E e \in Events("rdy") : e[4] = arg.offsety
    /\ \E e \in Events("wry") : e[4] = arg.offsety


\* the steps of a call after the handle test, in the order of the code
AsumSteps == <<"arg_check", "device_malloc", "check_numerics", "launcher">>

IsAsumStep(e) == \E i \in DOMAIN AsumSteps : AsumSteps[i] = e

\* the steps the call has taken so far, in the order it took them
StepsTaken == SelectSeq(asum.ev, IsAsumStep)

IsPrefix(p, q) == Len(p) <= Len(q) /\ \A i \in DOMAIN p : p[i] = q[i]

====
